---------------------------- MODULE Spec2Model ----------------------------
(***************************************************************************)
(* A model of the BootSteroids game core: the LivesManager (lives and the  *)
(* lazily expiring invincibility window), the GameStateManager with its    *)
(* Menu / Playing / Paused / GameOver states, the per-tick collision       *)
(* resolution of the Playing state, the ScoreManager with its high score   *)
(* file, Asteroid.split, the movement, screen wrap and shooting of Player  *)
(* and Asteroid, and the SoundManager.                                     *)
(*                                                                         *)
(* Time is the wall clock read by time.time(), counted in whole seconds.   *)
(* An optional constructor argument is <<>> (None) or <<n>>.               *)
(***************************************************************************)
EXTENDS Integers, Sequences, FiniteSets, TLC

VARIABLES
    now,        \* the wall clock, time.time()
    lm,         \* the LivesManager under test (NoManager before construction)
    lmLast,     \* the last call made on lm and what it returned
    lmCalls,    \* <<k>>: k lose_life() calls and nothing else since construction; else Tainted
    mgr,        \* the GameStateManager: current_state and next_state (0 is None)
    heap,       \* the state objects that can still be reached, by identity
    hsFile,     \* the high score file: <<>> when missing, else <<n>>
    running,    \* false once the menu has called pygame.quit() and exit()
    calls,      \* the calls the last manager operation made on state objects
    smgr,       \* the ScoreManager under test (NoManager when its construction raised)
    store,      \* the high score file that smgr was constructed on
    smLast,     \* the last call made on smgr and what it returned
    ast,        \* the asteroids under test and the groups bound in Asteroid.containers
    astLast,    \* the last split() call and what it did
    ent,        \* the Player or Asteroid under test, with the shots it fired
    entLast,    \* the last call made on ent and what it returned
    snd,        \* the SoundManager under test and the audio device
    sndLast     \* the last call made on snd and what it returned

livesVars == <<lm, lmLast, lmCalls>>
gameVars == <<mgr, heap, hsFile, running, calls>>
unitVars == <<smgr, store, smLast, ast, astLast>>
partVars == <<ent, entLast, snd, sndLast>>
vars == <<now, lm, lmLast, lmCalls, mgr, heap, hsFile, running, calls,
          smgr, store, smLast, ast, astLast, ent, entLast, snd, sndLast>>

-----------------------------------------------------------------------------
(* Bounds of the model *)

MaxTime == 4          \* the clock stops advancing here
MaxLives == 4         \* add_life() is not called at or above this count
MaxCalls == 4         \* lose_life() calls counted per manager
MaxField == 1         \* the field spawns only below this many asteroids
MaxAsteroids == 2     \* a tick that would leave more asteroids than this is not taken
MaxShots == 1         \* the player fires only below this many shots
MaxSteps == 3         \* calls made on the Player or Asteroid under test
MaxSoundCalls == 3    \* calls made on the SoundManager under test

MaxScore == 100       \* a tick that would take the score further than this from 0 or from the threshold is not taken
MaxTick == 3          \* the wall clock of the game stops here
MaxObjects == 5       \* split() is not called when it would leave more asteroid objects than this
MaxThresholds == 3    \* add_score() is not called past this many extra-life thresholds

-----------------------------------------------------------------------------
(* LivesManager: src/livesmanager.py *)

DEFAULT_INITIAL_LIVES == 3
DEFAULT_INVINCIBILITY_DURATION == 2

None == <<>>
Some(n) == <<n>>
OrDefault(opt, d) == IF opt = None THEN d ELSE opt[1]

NoManager == [exists |-> FALSE]
Tainted == <<>>

Max(a, b) == IF a >= b THEN a ELSE b

\* a constructor that forgets to validate the duration
LivesManagerRaisesLivesOnly(initial_lives, invincibility_duration) ==
    OrDefault(initial_lives, DEFAULT_INITIAL_LIVES) < 0

\* __init__: whether it raises ValueError
LivesManagerRaises(initial_lives, invincibility_duration) ==
    \/ OrDefault(initial_lives, DEFAULT_INITIAL_LIVES) < 0
    \/ OrDefault(invincibility_duration, DEFAULT_INVINCIBILITY_DURATION) < 0

\* __init__: the record of a constructed manager, or NoManager when it raises
LivesManagerNew(initial_lives, invincibility_duration) ==
    IF LivesManagerRaises(initial_lives, invincibility_duration)
    THEN NoManager
    ELSE [exists |-> TRUE,
          initial_lives |-> OrDefault(initial_lives, DEFAULT_INITIAL_LIVES),
          invincibility_duration |->
              OrDefault(invincibility_duration, DEFAULT_INVINCIBILITY_DURATION),
          current_lives |-> OrDefault(initial_lives, DEFAULT_INITIAL_LIVES),
          invincibility_start_time |-> 0,
          is_invincible_active |-> FALSE]

StartInvincibility(m, t) ==
    [m EXCEPT !.is_invincible_active = TRUE, !.invincibility_start_time = t]

\* lose_life that reports game over only below zero
LoseLifeStrictReturn(m, t) ==
    LET m2 == IF m.current_lives > 0
              THEN StartInvincibility([m EXCEPT !.current_lives = @ - 1], t)
              ELSE m
    IN  [lm |-> m2, ret |-> (m2.current_lives < 0)]

\* lose_life that decrements without looking at the count
LoseLifeUnguarded(m, t) ==
    LET m2 == StartInvincibility([m EXCEPT !.current_lives = @ - 1], t)
    IN  [lm |-> m2, ret |-> (m2.current_lives <= 0)]

\* lose_life: the manager afterwards and the value returned
LoseLife(m, t) ==
    LET m2 == IF m.current_lives > 0
              THEN StartInvincibility([m EXCEPT !.current_lives = @ - 1], t)
              ELSE m
    IN  [lm |-> m2, ret |-> (m2.current_lives <= 0)]

\* add_life as it would be if it restored the initial lives
AddLifeRestores(m) == [m EXCEPT !.current_lives = m.initial_lives]

AddLife(m) == [m EXCEPT !.current_lives = @ + 1]

GetLives(m) == m.current_lives

ResetLives(m) ==
    [m EXCEPT !.current_lives = m.initial_lives,
              !.is_invincible_active = FALSE,
              !.invincibility_start_time = 0]

\* is_invincible that expires one instant late
IsInvincibleLate(m, t) ==
    IF ~m.is_invincible_active
    THEN [lm |-> m, ret |-> FALSE]
    ELSE IF t - m.invincibility_start_time > m.invincibility_duration
         THEN [lm |-> [m EXCEPT !.is_invincible_active = FALSE], ret |-> FALSE]
         ELSE [lm |-> m, ret |-> TRUE]

\* is_invincible that reports the expiry but leaves the flag set
IsInvincibleNoClear(m, t) ==
    IF ~m.is_invincible_active
    THEN [lm |-> m, ret |-> FALSE]
    ELSE IF t - m.invincibility_start_time >= m.invincibility_duration
         THEN [lm |-> m, ret |-> FALSE]
         ELSE [lm |-> m, ret |-> TRUE]

\* is_invincible: the manager afterwards (the flag may be cleared) and the value returned
IsInvincible(m, t) ==
    IF ~m.is_invincible_active
    THEN [lm |-> m, ret |-> FALSE]
    ELSE IF t - m.invincibility_start_time >= m.invincibility_duration
         THEN [lm |-> [m EXCEPT !.is_invincible_active = FALSE], ret |-> FALSE]
         ELSE [lm |-> m, ret |-> TRUE]

GetInvincibilityTimeRemaining(m, t) ==
    IF ~m.is_invincible_active
    THEN 0
    ELSE Max(0, m.invincibility_duration - (t - m.invincibility_start_time))

IsGameOver(m) == m.current_lives <= 0

-----------------------------------------------------------------------------
(* constants.py *)

SCREEN_WIDTH == 1280
SCREEN_HEIGHT == 720
ASTEROID_MIN_RADIUS == 20
ASTEROID_KINDS == 3
PLAYER_RADIUS == 20
SHOT_RADIUS == 5

-----------------------------------------------------------------------------
(* CircleShape: src/circleshape.py.  A position is <<x, y>>. *)

DistanceSquared(p, q) ==
    (p[1] - q[1]) * (p[1] - q[1]) + (p[2] - q[2]) * (p[2] - q[2])

\* isColliding as it would be if touching shapes did not collide
IsCollidingStrict(a, b) ==
    IF DistanceSquared(a.position, b.position)
          >= (a.radius + b.radius) * (a.radius + b.radius)
    THEN FALSE
    ELSE TRUE

\* isColliding: d > r1 + r2 is decided on the squares, all terms being >= 0
IsColliding(a, b) ==
    IF DistanceSquared(a.position, b.position)
          > (a.radius + b.radius) * (a.radius + b.radius)
    THEN FALSE
    ELSE TRUE

-----------------------------------------------------------------------------
(* Player and Asteroid as moving shapes: src/player.py, src/asteroid.py.    *)
(* dt is counted in tenths of a second, a velocity in pixels per tenth.     *)

PLAYER_SHOOT_COOLDOWN == 3

\* the same shape dt later
Moved(position, velocity, dt) ==
    <<position[1] + velocity[1] * dt, position[2] + velocity[2] * dt>>

\* wrap_screen as it would be if it wrapped by remainder
PlayerWrapScreenModulo(position) ==
    <<position[1] % SCREEN_WIDTH, position[2] % SCREEN_HEIGHT>>

\* Player.wrap_screen: x, then y
PlayerWrapScreen(position) ==
    LET x == IF position[1] < 0 THEN SCREEN_WIDTH
             ELSE IF position[1] > SCREEN_WIDTH THEN 0
             ELSE position[1]
        y == IF position[2] < 0 THEN SCREEN_HEIGHT
             ELSE IF position[2] > SCREEN_HEIGHT THEN 0
             ELSE position[2]
    IN  <<x, y>>

\* Asteroid.wrap_screen: the same code, written out a second time
AsteroidWrapScreen(position) ==
    LET x == IF position[1] < 0 THEN SCREEN_WIDTH
             ELSE IF position[1] > SCREEN_WIDTH THEN 0
             ELSE position[1]
        y == IF position[2] < 0 THEN SCREEN_HEIGHT
             ELSE IF position[2] > SCREEN_HEIGHT THEN 0
             ELSE position[2]
    IN  <<x, y>>

\* Asteroid.update as it would be without the wrap at its end
AsteroidUpdateNoWrap(a, dt) ==
    [a EXCEPT !.position = Moved(@, a.velocity, dt)]

\* Asteroid.update: move, (turn,) wrap
AsteroidUpdate(a, dt) ==
    [a EXCEPT !.position = AsteroidWrapScreen(Moved(@, a.velocity, dt))]

\* Player.shoot as it would be without the cooldown test
ShootUnguarded(p, shots) ==
    [player |-> [p EXCEPT !.shoot_cooldown = PLAYER_SHOOT_COOLDOWN],
     shots |-> Append(shots, [position |-> p.position,
                              radius |-> SHOT_RADIUS])]

\* Player.shoot on the player p and the shots fired so far: the player and
\* the shots after the call
Shoot(p, shots) ==
    IF p.shoot_cooldown > 0
    THEN [player |-> p, shots |-> shots]
    ELSE [player |-> [p EXCEPT !.shoot_cooldown = PLAYER_SHOOT_COOLDOWN],
          shots |-> Append(shots, [position |-> p.position,
                                   radius |-> SHOT_RADIUS])]

\* Player.update with SPACE held or not; velocity is what turning, thrust
\* and drag make of the velocity in this call
PlayerUpdate(p, shots, dt, space, velocity) ==
    LET cooled == [p EXCEPT !.shoot_cooldown = @ - dt]
        fired == IF space THEN Shoot(cooled, shots)
                 ELSE [player |-> cooled, shots |-> shots]
        pushed == [fired.player EXCEPT !.velocity = velocity]
    IN  [player |-> [pushed EXCEPT
                       !.position = PlayerWrapScreen(Moved(@, velocity, dt))],
         shots |-> fired.shots]

-----------------------------------------------------------------------------

(* SoundManager: src/soundmanager.py.  The manager is its mixer_initialized *)
(* flag, the keys of sounds and current_music (<<>> is None); the audio     *)
(* device is the number of times pygame.mixer was reached since the manager *)
(* was built and what the music channel is doing.  A call into pygame.mixer *)
(* goes well ("no"), raises pygame.error, or raises something else, which   *)
(* no method catches.  A method gives the manager and the device after it,  *)
(* the value it returned ("None", "True", "False") and whether it raised.   *)

Fails == {"no", "pygame.error", "other"}

SoundOut(m, dev, ret, raised) ==
    [m |-> m, dev |-> dev, ret |-> ret, raised |-> raised]

Touched(dev, music) == [calls |-> dev.calls + 1, music |-> music]

\* __init__: _initialize_mixer, then _load_default_sounds for the default
\* files that are present
SoundManagerNew(mixer_ok, present) ==
    [mixer_initialized |-> mixer_ok,
     sounds |-> IF mixer_ok THEN present ELSE {},
     current_music |-> <<>>]

LoadSound(m, dev, sound_key, exists, fails) ==
    IF ~m.mixer_initialized THEN SoundOut(m, dev, "False", FALSE)
    ELSE IF ~exists THEN SoundOut(m, dev, "False", FALSE)
    ELSE IF fails = "pygame.error"
    THEN SoundOut(m, Touched(dev, dev.music), "False", FALSE)
    ELSE IF fails = "other"
    THEN SoundOut(m, Touched(dev, dev.music), "None", TRUE)
    ELSE SoundOut([m EXCEPT !.sounds = @ \cup {sound_key}],
                  Touched(dev, dev.music), "True", FALSE)

PlaySound(m, dev, sound_key, fails) ==
    IF ~m.mixer_initialized THEN SoundOut(m, dev, "None", FALSE)
    ELSE IF sound_key \in m.sounds
    THEN SoundOut(m, Touched(dev, dev.music), "None", fails = "other")
    ELSE SoundOut(m, dev, "None", FALSE)

PlayMusic(m, dev, music_file, exists, fails) ==
    IF ~m.mixer_initialized THEN SoundOut(m, dev, "False", FALSE)
    ELSE IF ~exists THEN SoundOut(m, dev, "False", FALSE)
    ELSE IF fails = "pygame.error"
    THEN SoundOut(m, Touched(dev, dev.music), "False", FALSE)
    ELSE IF fails = "other"
    THEN SoundOut(m, Touched(dev, dev.music), "None", TRUE)
    ELSE SoundOut([m EXCEPT !.current_music = <<music_file>>],
                  Touched(dev, "playing"), "True", FALSE)

\* stop_music as it would be without the test of mixer_initialized
StopMusicUnguarded(m, dev, fails) ==
    IF fails # "no"
    THEN SoundOut(m, Touched(dev, dev.music), "None", fails = "other")
    ELSE SoundOut([m EXCEPT !.current_music = <<>>],
                  Touched(dev, "idle"), "None", FALSE)

StopMusic(m, dev, fails) ==
    IF ~m.mixer_initialized THEN SoundOut(m, dev, "None", FALSE)
    ELSE IF fails # "no"
    THEN SoundOut(m, Touched(dev, dev.music), "None", fails = "other")
    ELSE SoundOut([m EXCEPT !.current_music = <<>>],
                  Touched(dev, "idle"), "None", FALSE)

PauseMusic(m, dev, fails) ==
    IF ~m.mixer_initialized THEN SoundOut(m, dev, "None", FALSE)
    ELSE IF fails # "no"
    THEN SoundOut(m, Touched(dev, dev.music), "None", fails = "other")
    ELSE SoundOut(m, Touched(dev, IF dev.music = "playing" THEN "paused"
                                  ELSE dev.music), "None", FALSE)

UnpauseMusic(m, dev, fails) ==
    IF ~m.mixer_initialized THEN SoundOut(m, dev, "None", FALSE)
    ELSE IF fails # "no"
    THEN SoundOut(m, Touched(dev, dev.music), "None", fails = "other")
    ELSE SoundOut(m, Touched(dev, IF dev.music = "paused" THEN "playing"
                                  ELSE dev.music), "None", FALSE)

IsMusicPlaying(m, dev, fails) ==
    IF ~m.mixer_initialized THEN SoundOut(m, dev, "False", FALSE)
    ELSE IF fails = "pygame.error"
    THEN SoundOut(m, Touched(dev, dev.music), "False", FALSE)
    ELSE IF fails = "other"
    THEN SoundOut(m, Touched(dev, dev.music), "None", TRUE)
    ELSE SoundOut(m, Touched(dev, dev.music),
                  IF dev.music = "playing" THEN "True" ELSE "False", FALSE)

FadeOutMusic(m, dev, fails) ==
    IF ~m.mixer_initialized THEN SoundOut(m, dev, "None", FALSE)
    ELSE IF fails # "no"
    THEN SoundOut(m, Touched(dev, dev.music), "None", fails = "other")
    ELSE SoundOut([m EXCEPT !.current_music = <<>>],
                  Touched(dev, "idle"), "None", FALSE)

FadeInMusic(m, dev, music_file, exists, fails) ==
    IF ~m.mixer_initialized THEN SoundOut(m, dev, "False", FALSE)
    ELSE IF ~exists THEN SoundOut(m, dev, "False", FALSE)
    ELSE IF fails = "pygame.error"
    THEN SoundOut(m, Touched(dev, dev.music), "False", FALSE)
    ELSE IF fails = "other"
    THEN SoundOut(m, Touched(dev, dev.music), "None", TRUE)
    ELSE SoundOut([m EXCEPT !.current_music = <<music_file>>],
                  Touched(dev, "playing"), "True", FALSE)

\* crossfade_music: fails[1] is for the is_music_playing probe, fails[2] for
\* the fade out, fails[3] for the fade in
CrossfadeMusic(m, dev, new_music_file, exists, fails) ==
    IF ~m.mixer_initialized THEN SoundOut(m, dev, "False", FALSE)
    ELSE LET busy == IsMusicPlaying(m, dev, fails[1])
             faded == FadeOutMusic(m, busy.dev, fails[2])
         IN  IF busy.raised THEN busy
             ELSE IF busy.ret # "True"
             THEN FadeInMusic(m, busy.dev, new_music_file, exists, fails[3])
             ELSE IF faded.raised THEN faded
             ELSE FadeInMusic(faded.m, faded.dev, new_music_file, exists,
                              fails[3])

-----------------------------------------------------------------------------

(* ScoreManager: src/scoremanager.py *)

EXTRA_LIFE_THRESHOLD == 10000

LARGE_ASTEROID_POINTS == 20
MEDIUM_ASTEROID_POINTS == 50
SMALL_ASTEROID_POINTS == 100

(* What the high score file holds: no file, a file that cannot be read,    *)
(* text that is not JSON, JSON that is not an object, an object without    *)
(* the key, and an object whose "high_score" is not a number, is true or   *)
(* false (value 1 or 0), or is the integer value.                          *)
StoreKinds == {"missing", "unreadable", "not_json", "non_object", "no_key",
               "wrong_type", "bool", "int"}
MissingStore == [kind |-> "missing", value |-> 0]
Saved(n) == [kind |-> "int", value |-> n]

\* the file of the game, <<>> or <<n>>, as a store
StoreOf(file) == IF file = <<>> THEN MissingStore ELSE Saved(file[1])

\* load_high_score: the high score it sets, or the exception that leaves it.
\* json.load of a non-object succeeds and score_data.get raises
\* AttributeError, which the except clause does not name; isinstance(True,
\* int) holds, so true stays as the high score (True == 1).
LoadStore(st) ==
    CASE st.kind \in {"missing", "unreadable", "not_json", "no_key", "wrong_type"}
            -> [high |-> 0, raised |-> FALSE]
      [] st.kind = "non_object" -> [high |-> 0, raised |-> TRUE]
      [] st.kind = "bool" -> [high |-> st.value, raised |-> FALSE]
      [] st.kind = "int" ->
            [high |-> IF st.value < 0 THEN 0 ELSE st.value, raised |-> FALSE]

\* load_high_score on the file of the game
LoadHighScore(file) == LoadStore(StoreOf(file)).high

ScoreManagerNew(file) ==
    [current_score |-> 0,
     high_score |-> LoadHighScore(file),
     last_extra_life_score |-> 0]

\* add_score as it would be if it also raised the high score
AddScoreRaisesHigh(sm, points) ==
    [sm EXCEPT !.current_score = @ + points,
               !.high_score = Max(@, sm.current_score + points)]

\* add_score: the manager afterwards when points is accepted

AddScore(sm, points) == [sm EXCEPT !.current_score = @ + points]

GetScore(sm) == sm.current_score

\* check_extra_life as it would be with a strict comparison
CheckExtraLifeStrict(sm) ==
    IF sm.current_score > sm.last_extra_life_score + EXTRA_LIFE_THRESHOLD
    THEN [sm |-> [sm EXCEPT !.last_extra_life_score =
                      (sm.current_score \div EXTRA_LIFE_THRESHOLD)
                          * EXTRA_LIFE_THRESHOLD],
          ret |-> TRUE]
    ELSE [sm |-> sm, ret |-> FALSE]

\* check_extra_life as it would be if it moved the marker one threshold a call
CheckExtraLifeOneStep(sm) ==
    IF sm.current_score >= sm.last_extra_life_score + EXTRA_LIFE_THRESHOLD
    THEN [sm |-> [sm EXCEPT !.last_extra_life_score = @ + EXTRA_LIFE_THRESHOLD],
          ret |-> TRUE]
    ELSE [sm |-> sm, ret |-> FALSE]

\* check_extra_life: the manager afterwards and the value returned
CheckExtraLife(sm) ==
    IF sm.current_score >= sm.last_extra_life_score + EXTRA_LIFE_THRESHOLD
    THEN [sm |-> [sm EXCEPT !.last_extra_life_score =
                      (sm.current_score \div EXTRA_LIFE_THRESHOLD)
                          * EXTRA_LIFE_THRESHOLD],
          ret |-> TRUE]
    ELSE [sm |-> sm, ret |-> FALSE]

IsNewHighScore(sm) == sm.current_score > sm.high_score

\* save_high_score as it would be if it took the current score whatever it is
SaveHighScoreLatest(sm) ==
    LET sm2 == [sm EXCEPT !.high_score = sm.current_score]
    IN  [sm |-> sm2, file |-> <<sm2.high_score>>]

\* save_high_score: the manager afterwards and the file it wrote
SaveHighScore(sm) ==
    LET sm2 == IF IsNewHighScore(sm)
               THEN [sm EXCEPT !.high_score = sm.current_score]
               ELSE sm
    IN  [sm |-> sm2, file |-> <<sm2.high_score>>]

\* save_high_score as it would be if it wrote the current score
SaveHighScoreOnWritesScore(m, st, writable) ==
    [sm |-> SaveHighScore(m).sm,
     store |-> IF writable THEN Saved(m.current_score) ELSE st]

\* save_high_score on a store that may refuse the write: IOError and OSError
\* are caught and the file is left as it was
SaveHighScoreOn(m, st, writable) ==
    [sm |-> SaveHighScore(m).sm,
     store |-> IF writable THEN StoreOf(SaveHighScore(m).file) ELSE st]

\* add_score as it would be without the check of its argument
AddScoreAccepts(points) == FALSE

\* add_score raises ValueError
AddScoreRaises(points) == points < 0

\* reset_score
ResetScore(m) == [m EXCEPT !.current_score = 0, !.last_extra_life_score = 0]

\* get_high_score
GetHighScore(m) == m.high_score

\* get_points_for_asteroid_size
GetPointsForAsteroidSize(radius) ==
    IF radius >= ASTEROID_MIN_RADIUS * ASTEROID_KINDS THEN LARGE_ASTEROID_POINTS
    ELSE IF radius >= ASTEROID_MIN_RADIUS * 2 THEN MEDIUM_ASTEROID_POINTS
    ELSE SMALL_ASTEROID_POINTS

\* ScoreManager(high_score_file): the manager, or NoManager when
\* load_high_score raised out of __init__
Held(obj) == [exists |-> TRUE, obj |-> obj]
ScoreManagerOn(st) ==
    IF LoadStore(st).raised THEN NoManager
    ELSE Held([current_score |-> 0,
               high_score |-> LoadStore(st).high,
               last_extra_life_score |-> 0])

-----------------------------------------------------------------------------
(* Asteroid.split as PlayingState sees it: src/asteroid.py *)

\* the tiers of split() as they would be with strict comparisons
SplitPointsStrict(radius) ==
    IF radius > ASTEROID_MIN_RADIUS * ASTEROID_KINDS THEN 20
    ELSE IF radius > ASTEROID_MIN_RADIUS * 2 THEN 50
    ELSE 100

SplitPoints(radius) ==
    IF radius >= ASTEROID_MIN_RADIUS * ASTEROID_KINDS THEN 20
    ELSE IF radius >= ASTEROID_MIN_RADIUS * 2 THEN 50
    ELSE 100

\* the asteroids split() registers with the groups
SplitChildren(a) ==
    IF a.radius <= ASTEROID_MIN_RADIUS
    THEN <<>>
    ELSE LET child == [position |-> a.position,
                       radius |-> a.radius - ASTEROID_MIN_RADIUS]
         IN  <<child, child>>

-----------------------------------------------------------------------------
(* Asteroid.split in full.  A pygame.Vector2 is held as the fraction       *)
(* (x/den, y/den) in lowest terms; an angle is held by its cosine and sine  *)
(* in fifths, a speed multiplier in twentieths.                             *)

Vec(x, y, den) == [x |-> x, y |-> y, den |-> den]

Abs(n) == IF n < 0 THEN 0 - n ELSE n

RECURSIVE GCD(_, _)
GCD(a, b) == IF b = 0 THEN a ELSE GCD(b, a % b)

Reduced(v) ==
    LET g == GCD(GCD(Abs(v.x), Abs(v.y)), v.den)
    IN  Vec(v.x \div g, v.y \div g, v.den \div g)

IsZero(v) == v.x = 0 /\ v.y = 0

\* Vector2.rotate(angle) for turn = 1 and Vector2.rotate(-angle) for turn = -1
Rotate(v, angle, turn) ==
    Reduced(Vec(v.x * angle.cos - turn * v.y * angle.sin,
                turn * v.x * angle.sin + v.y * angle.cos,
                v.den * 5))

\* Vector2 * (num/den)
Times(v, num, den) == Reduced(Vec(v.x * num, v.y * num, v.den * den))

\* Vector2 + Vector2 and Vector2 - Vector2
Plus(v, w) ==
    Reduced(Vec(v.x * w.den + w.x * v.den, v.y * w.den + w.y * v.den,
                v.den * w.den))
Minus(v, w) == Plus(v, Vec(0 - w.x, 0 - w.y, w.den))

\* the vector has whole components and a whole length
HasLength(v) ==
    /\ v.den = 1
    /\ \E n \in 0..(Abs(v.x) + Abs(v.y)) : n * n = v.x * v.x + v.y * v.y
Length(v) ==
    CHOOSE n \in 0..(Abs(v.x) + Abs(v.y)) : n * n = v.x * v.x + v.y * v.y

\* Vector2.normalize() raises ValueError for a vector of length zero
NormalizeRaises(v) == IsZero(v)

\* Vector2.normalize() * u; when u is 0 the product is the zero vector
\* whatever the length is
NormalizeTimes(v, u) ==
    IF u = 0 THEN Vec(0, 0, 1)
    ELSE Reduced(Vec(v.x * u, v.y * u, Length(v)))

\* CircleShape.__init__ from Asteroid.__init__: the sprite joins the groups
\* of Asteroid.containers, velocity is Vector2(0, 0)
AsteroidNew(position, radius, containers) ==
    [position |-> position, velocity |-> Vec(0, 0, 1), radius |-> radius,
     groups |-> containers]

\* split() as it would be if the children joined the groups of their parent
SplitIntoParentGroups(a, containers, draw) ==
    LET turned == Vec(0 - a.velocity.y, a.velocity.x, a.velocity.den)
        child == AsteroidNew(a.position, a.radius - ASTEROID_MIN_RADIUS,
                             a.groups)
    IN  [self |-> [a EXCEPT !.groups = {}],
         points |-> SplitPoints(a.radius),
         returned |-> a.radius <= ASTEROID_MIN_RADIUS \/ ~NormalizeRaises(turned),
         raised |-> a.radius > ASTEROID_MIN_RADIUS /\ NormalizeRaises(turned),
         children |-> IF a.radius <= ASTEROID_MIN_RADIUS \/ NormalizeRaises(turned)
                      THEN <<>> ELSE <<child, child>>]

\* split(): the asteroid afterwards, the points computed, whether they were
\* returned or normalize() raised, and the asteroids created
Split(a, containers, draw) ==
    LET points == SplitPoints(a.radius)
        killed == [a EXCEPT !.groups = {}]
        turned == Vec(0 - a.velocity.y, a.velocity.x, a.velocity.den)
        perpendicular_velocity == NormalizeTimes(turned, draw.perpendicular)
        velocity1 == Plus(Times(Rotate(a.velocity, draw.base_angle, 1),
                                draw.speed_multiplier, 20),
                          perpendicular_velocity)
        velocity2 == Minus(Times(Rotate(a.velocity, draw.base_angle, 0 - 1),
                                 draw.speed_multiplier, 20),
                           perpendicular_velocity)
        child(v) == [AsteroidNew(a.position, a.radius - ASTEROID_MIN_RADIUS,
                                 containers)
                        EXCEPT !.velocity = v]
    IN  IF a.radius <= ASTEROID_MIN_RADIUS
        THEN [self |-> killed, points |-> points, returned |-> TRUE,
              raised |-> FALSE, children |-> <<>>]
        ELSE IF NormalizeRaises(turned)
        THEN [self |-> killed, points |-> points, returned |-> FALSE,
              raised |-> TRUE, children |-> <<>>]
        ELSE [self |-> killed, points |-> points, returned |-> TRUE,
              raised |-> FALSE,
              children |-> <<child(velocity1), child(velocity2)>>]

(* PlayingState: src/states/playingstate.py.  A sprite group is the         *)
(* sequence of its members in insertion order, which is the order in which  *)
(* it is iterated; iterating a group walks a snapshot of it.                *)

Center == <<SCREEN_WIDTH \div 2, SCREEN_HEIGHT \div 2>>

EXTRA_LIFE_NOTIFICATION_DURATION == 3

\* __init__: the groups, the managers and the player are None until enter()
Unentered == [ready |-> FALSE, extra_life_notification_time |-> 0]

\* enter(): everything but the notification time is made anew
EnterSession(s, file) ==
    [ready |-> TRUE,
     asteroids |-> <<>>,
     shots |-> <<>>,
     player |-> [position |-> Center, radius |-> PLAYER_RADIUS, rotation |-> 0],
     player_grouped |-> TRUE,        \* the player is in updatable and drawable
     field_grouped |-> TRUE,         \* the asteroid field is in updatable
     score_manager |-> ScoreManagerNew(file),
     lives_manager |-> LivesManagerNew(None, None),
     extra_life_notification_time |-> s.extra_life_notification_time]

\* exit(): every group is emptied; the managers and the player object stay
ExitSession(s) ==
    IF ~s.ready THEN s
    ELSE [s EXCEPT !.asteroids = <<>>, !.shots = <<>>,
                   !.player_grouped = FALSE, !.field_grouped = FALSE]

RECURSIVE RemoveFirst(_, _)
\* kill(): the sequence without its first member equal to x
RemoveFirst(seq, x) ==
    IF seq = <<>> THEN <<>>
    ELSE IF Head(seq) = x THEN Tail(seq)
    ELSE <<Head(seq)>> \o RemoveFirst(Tail(seq), x)

\* respawn_player() without the rotation reset
RespawnPlayerKeepsRotation(s) ==
    [s EXCEPT !.player.position = Center]

\* respawn_player()
RespawnPlayer(s) ==
    [s EXCEPT !.player.position = Center, !.player.rotation = 0]

\* updatable.update(dt): the player moves, turns and may shoot from where it
\* was; the field may spawn; every asteroid and shot already in the group moves
MoveEntities(s, in) ==
    [s EXCEPT
        !.player = IF s.player_grouped
                   THEN [@ EXCEPT !.position = in.ppos, !.rotation = in.prot]
                   ELSE @,
        !.asteroids =
            [i \in 1..Len(s.asteroids) |->
                [s.asteroids[i] EXCEPT !.position = in.apos[i]]]
            \o (IF in.spawn = <<>> THEN <<>>
                ELSE <<[position |-> in.spawn[1],
                        radius |-> ASTEROID_MIN_RADIUS * ASTEROID_KINDS]>>),
        !.shots =
            [i \in 1..Len(s.shots) |->
                [s.shots[i] EXCEPT !.position = in.spos[i]]]
            \o (IF in.shoot
                THEN <<[position |-> s.player.position, radius |-> SHOT_RADIUS]>>
                ELSE <<>>)]

\* an entry of the log of what a step did: the call and its argument or result
Ev(op, arg) == [op |-> op, arg |-> arg]

\* the collision body without shot.kill()
ShotHitKeepsShot(a, shot, st, t) ==
    LET s == st.s
        points == SplitPoints(a.radius)
        sm2 == AddScore(s.score_manager, points)
        extra == CheckExtraLife(sm2)
    IN  [st EXCEPT
            !.killed = TRUE,
            !.log = @ \o <<Ev("split", points), Ev("add_score", points),
                           Ev("check_extra_life", IF extra.ret THEN 1 ELSE 0)>>
                      \o (IF extra.ret THEN <<Ev("add_life", 0)>> ELSE <<>>)
                      \o <<Ev("kill_shot", 0)>>,
            !.s = [s EXCEPT
                !.asteroids = (IF st.killed THEN @ ELSE RemoveFirst(@, a))
                              \o SplitChildren(a),
                !.score_manager = extra.sm,
                !.lives_manager = IF extra.ret THEN AddLife(@) ELSE @,
                !.extra_life_notification_time = IF extra.ret THEN t ELSE @]]

\* the body of "if asteroid.isColliding(shot)": lines 126-158
ShotHit(a, shot, st, t) ==
    LET s == st.s
        points == SplitPoints(a.radius)
        asteroids2 == (IF st.killed THEN s.asteroids
                       ELSE RemoveFirst(s.asteroids, a)) \o SplitChildren(a)
        sm2 == AddScore(s.score_manager, points)
        extra == CheckExtraLife(sm2)
    IN  [st EXCEPT
            !.killed = TRUE,
            !.log = @ \o <<Ev("split", points), Ev("add_score", points),
                           Ev("check_extra_life", IF extra.ret THEN 1 ELSE 0)>>
                      \o (IF extra.ret THEN <<Ev("add_life", 0)>> ELSE <<>>)
                      \o <<Ev("kill_shot", 0)>>,
            !.s = [s EXCEPT
                !.asteroids = asteroids2,
                !.score_manager = extra.sm,
                !.lives_manager = IF extra.ret THEN AddLife(@) ELSE @,
                !.extra_life_notification_time = IF extra.ret THEN t ELSE @,
                !.shots = RemoveFirst(@, shot)]]

RECURSIVE ShotLoop(_, _, _, _, _)
\* "for shot in self.shots" over the snapshot snap, from its j-th member
ShotLoop(a, snap, j, st, t) ==
    IF j > Len(snap) THEN st
    ELSE IF IsColliding(a, snap[j])
         THEN ShotLoop(a, snap, j + 1, ShotHit(a, snap[j], st, t), t)
         ELSE ShotLoop(a, snap, j + 1, st, t)

\* the ship-hit branch without save_high_score()
ShipHitNoSave(st, t) ==
    LET s == st.s
        lost == LoseLife(s.lives_manager, t)
    IN  IF lost.ret
        THEN [st EXCEPT
                 !.s = [s EXCEPT !.lives_manager = lost.lm],
                 !.request = <<GetScore(s.score_manager)>>,
                 !.log = @ \o <<Ev("lose_life", 1),
                                Ev("change_state", GetScore(s.score_manager))>>]
        ELSE [st EXCEPT
                 !.s = RespawnPlayer([s EXCEPT !.lives_manager = lost.lm]),
                 !.log = @ \o <<Ev("lose_life", 0), Ev("respawn_player", 0)>>]

\* the body of the ship-hit branch, which ends the asteroid loop: lines 86-122
ShipHit(st, t) ==
    LET s == st.s
        lost == LoseLife(s.lives_manager, t)
    IN  IF lost.ret
        THEN LET saved == SaveHighScore(s.score_manager)
             IN  [st EXCEPT
                     !.s = [s EXCEPT !.lives_manager = lost.lm,
                                     !.score_manager = saved.sm],
                     !.file = saved.file,
                     !.request = <<GetScore(saved.sm)>>,
                     !.log = @ \o <<Ev("lose_life", 1), Ev("save_high_score", 0),
                                    Ev("change_state", GetScore(saved.sm))>>]
        ELSE [st EXCEPT
                 !.s = RespawnPlayer([s EXCEPT !.lives_manager = lost.lm]),
                 !.log = @ \o <<Ev("lose_life", 0), Ev("respawn_player", 0)>>]

RECURSIVE AsteroidLoopNoBreak(_, _, _, _)
\* the asteroid loop as it would be if a hit that is not the last went on
\* to the next asteroid
AsteroidLoopNoBreak(snap, i, st, t) ==
    IF i > Len(snap) THEN st
    ELSE LET a == snap[i]
             hit == IsColliding(a, st.s.player)
             inv == IsInvincible(st.s.lives_manager, t)
         IN  IF hit /\ ~inv.ret
             THEN LET after == ShipHit([st EXCEPT !.s.lives_manager = inv.lm], t)
                  IN  IF after.request # <<>> THEN after
                      ELSE AsteroidLoopNoBreak(snap, i + 1, after, t)
             ELSE LET st1 == IF hit
                             THEN [st EXCEPT !.s.lives_manager = inv.lm,
                                             !.killed = FALSE]
                             ELSE [st EXCEPT !.killed = FALSE]
                  IN  AsteroidLoopNoBreak(snap, i + 1,
                                          ShotLoop(a, st1.s.shots, 1, st1, t), t)

RECURSIVE AsteroidLoop(_, _, _, _)
\* "for asteroid in self.asteroids" over the snapshot snap, from its i-th member
AsteroidLoop(snap, i, st, t) ==
    IF i > Len(snap) THEN st
    ELSE LET a == snap[i]
             hit == IsColliding(a, st.s.player)
             inv == IsInvincible(st.s.lives_manager, t)
         IN  IF hit /\ ~inv.ret
             THEN ShipHit([st EXCEPT !.s.lives_manager = inv.lm], t)
             ELSE LET st1 == IF hit
                             THEN [st EXCEPT !.s.lives_manager = inv.lm,
                                             !.killed = FALSE]
                             ELSE [st EXCEPT !.killed = FALSE]
                  IN  AsteroidLoop(snap, i + 1,
                                   ShotLoop(a, st1.s.shots, 1, st1, t), t)

\* update(dt): the session afterwards, the GameOverState it queued (<<>> or
\* <<final_score>>), the high score file and the log of what it did
PlayingUpdate(s, in, t, file) ==
    LET moved == MoveEntities(s, in)
    IN  AsteroidLoop(moved.asteroids, 1,
                     [s |-> moved, request |-> <<>>, file |-> file,
                      killed |-> FALSE,
                      log |-> IF in.shoot THEN <<Ev("shoot", 0)>> ELSE <<>>], t)

\* draw(screen): the two is_invincible() queries may clear the flag, and an
\* expired notification is reset
PlayingDraw(s, t) ==
    [s EXCEPT
        !.lives_manager = IsInvincible(@, t).lm,
        !.extra_life_notification_time =
            IF @ > 0 /\ ~(t - @ < EXTRA_LIFE_NOTIFICATION_DURATION) THEN 0 ELSE @]

-----------------------------------------------------------------------------
(* The LivesManager driven by a test: one action per call *)

InitialLivesArgs == {None, Some(-1), Some(0), Some(1), Some(2), Some(3)}
DurationArgs == {None, Some(-1), Some(0), Some(1), Some(2)}

Call(op, val) == [op |-> op, val |-> val]

\* a call on the ScoreManager: its argument, the number or truth value it
\* returned, whether it raised, and the manager before the call
SmCall(op, arg, ret, flag, raised, pre) ==
    [op |-> op, arg |-> arg, ret |-> ret, flag |-> flag, raised |-> raised,
     pre |-> pre]

ScoreIdle ==
    /\ smgr = NoManager
    /\ store = MissingStore
    /\ smLast = SmCall("none", 0, 0, FALSE, FALSE, NoManager)

\* a split() call: the asteroid it was made on (as it was before), the
\* random draws, and what Split gave
NoDraw == [base_angle |-> [cos |-> 5, sin |-> 0], speed_multiplier |-> 20,
           perpendicular |-> 0]
AstCall(op, id, pre, draw, out) ==
    [op |-> op, id |-> id, pre |-> pre, draw |-> draw, out |-> out]

AsteroidIdle ==
    /\ ast = [objects |-> <<>>, containers |-> {}, done |-> {}]
    /\ astLast = AstCall("none", 0, <<>>, NoDraw, <<>>)

\* a call on the Player or Asteroid under test: its dt, the entity with its
\* shots before the call, the other shape of isColliding, the value
\* returned, and, when the call fired a shot after an earlier one, the dt
\* that passed between the two
NoShape == [position |-> <<0, 0>>, radius |-> 0]
EntCall(op, dt, pre, other, ret, gap) ==
    [op |-> op, dt |-> dt, pre |-> pre, other |-> other, ret |-> ret,
     gap |-> gap]

NoEntity == [kind |-> "none", position |-> <<0, 0>>, velocity |-> <<0, 0>>,
             radius |-> 0, shoot_cooldown |-> 0]

EntityIdle ==
    /\ ent = [obj |-> NoEntity, shots |-> <<>>, since |-> <<>>, steps |-> 0]
    /\ entLast = EntCall("none", 0, <<>>, NoShape, FALSE, <<>>)

\* a call on the SoundManager under test: what it was made on and gave
SndCall(op, pre, ret, raised) ==
    [op |-> op, pre |-> pre, ret |-> ret, raised |-> raised]

SilentDevice == [calls |-> 0, music |-> "idle"]

SoundIdle ==
    /\ snd = [m |-> SoundManagerNew(FALSE, {}), dev |-> SilentDevice,
              steps |-> 0]
    /\ sndLast = SndCall("none", <<>>, "None", FALSE)

GameIdle ==
    /\ mgr = [current_state |-> 0, next_state |-> 0]
    /\ heap = <<>>
    /\ hsFile = <<>>
    /\ running = TRUE
    /\ calls = <<>>

LivesInit ==
    /\ now = 0
    /\ lm = NoManager
    /\ lmLast = Call("none", <<>>)
    /\ lmCalls = <<0>>
    /\ GameIdle
    /\ EntityIdle
    /\ SoundIdle
    /\ ScoreIdle
    /\ AsteroidIdle

Construct ==
    /\ ~lm.exists
    /\ \E il \in InitialLivesArgs, d \in DurationArgs :
          /\ lm' = LivesManagerNew(il, d)
          /\ lmLast' = Call("init", <<il, d>>)
    /\ lmCalls' = <<0>>
    /\ UNCHANGED <<now, gameVars, unitVars, partVars>>

LoseLifeCall ==
    /\ lm.exists
    /\ IF lmCalls = Tainted THEN TRUE ELSE lmCalls[1] < MaxCalls
    /\ lm' = LoseLife(lm, now).lm
    /\ lmLast' = Call("lose_life", <<LoseLife(lm, now).ret>>)
    /\ lmCalls' = IF lmCalls = Tainted THEN Tainted ELSE <<lmCalls[1] + 1>>
    /\ UNCHANGED <<now, gameVars, unitVars, partVars>>

AddLifeCall ==
    /\ lm.exists
    /\ lm.current_lives < MaxLives
    /\ lm' = AddLife(lm)
    /\ lmLast' = Call("add_life", <<>>)
    /\ lmCalls' = Tainted
    /\ UNCHANGED <<now, gameVars, unitVars, partVars>>

ResetLivesCall ==
    /\ lm.exists
    /\ lm' = ResetLives(lm)
    /\ lmLast' = Call("reset_lives", <<>>)
    /\ lmCalls' = Tainted
    /\ UNCHANGED <<now, gameVars, unitVars, partVars>>

StartInvincibilityCall ==
    /\ lm.exists
    /\ lm' = StartInvincibility(lm, now)
    /\ lmLast' = Call("start_invincibility", <<>>)
    /\ UNCHANGED <<now, lmCalls, gameVars, unitVars, partVars>>

IsInvincibleCall ==
    /\ lm.exists
    /\ lm' = IsInvincible(lm, now).lm
    /\ lmLast' = Call("is_invincible", <<IsInvincible(lm, now).ret>>)
    /\ UNCHANGED <<now, lmCalls, gameVars, unitVars, partVars>>

TimeRemainingCall ==
    /\ lm.exists
    /\ lmLast' = Call("time_remaining", <<GetInvincibilityTimeRemaining(lm, now)>>)
    /\ UNCHANGED <<now, lm, lmCalls, gameVars, unitVars, partVars>>

\* time passes between two calls
Sleep ==
    /\ now < MaxTime
    /\ now' = now + 1
    /\ lmLast' = Call("sleep", <<>>)
    /\ UNCHANGED <<lm, lmCalls, gameVars, unitVars, partVars>>

LivesNext ==
    \/ Construct
    \/ LoseLifeCall
    \/ AddLifeCall
    \/ ResetLivesCall
    \/ StartInvincibilityCall
    \/ IsInvincibleCall
    \/ TimeRemainingCall
    \/ Sleep

SpecLives == LivesInit /\ [][LivesNext]_vars

-----------------------------------------------------------------------------
(* The state objects.  A state object is a record; heap maps the identity  *)
(* of every object that can still be reached to its record, and an object  *)
(* no reference leads to is dropped, as CPython drops it.                  *)

NewState(kind, playing_state, final_score) ==
    [kind |-> kind,
     selected_option |-> 0,
     playing_state |-> playing_state,      \* PausedState: the state to resume
     final_score |-> final_score,          \* GameOverState
     active |-> FALSE,                     \* enter() ran and exit() has not since
     session |-> Unentered]                \* PlayingState: its fields

FreshId(h) ==
    CHOOSE i \in 1..(Cardinality(DOMAIN h) + 1) :
        i \notin DOMAIN h /\ \A j \in 1..(i - 1) : j \in DOMAIN h

Alloc(h, rec) ==
    [i \in DOMAIN h \cup {FreshId(h)} |-> IF i \in DOMAIN h THEN h[i] ELSE rec]

Live(m, h) ==
    LET roots == {m.current_state, m.next_state} \ {0}
    IN  roots \cup {h[i].playing_state : i \in {r \in roots : h[r].kind = "Paused"}}

Collect(m, h) == [i \in Live(m, h) |-> h[i]]

\* enter() of the state object id
StateEnter(h, id, file) ==
    [h EXCEPT ![id] =
        [h[id] EXCEPT !.active = TRUE,
                      !.session = IF h[id].kind = "Playing"
                                  THEN EnterSession(@, file) ELSE @]]

\* exit() of the state object id
StateExit(h, id) ==
    [h EXCEPT ![id] =
        [h[id] EXCEPT !.active = FALSE, !.session = ExitSession(@)]]

-----------------------------------------------------------------------------
(* GameStateManager: src/gamestatemanager.py *)

\* change_state switching at once
ChangeStateEager(m, id) == [m EXCEPT !.current_state = id]

\* change_state
ChangeState(m, id) == [m EXCEPT !.next_state = id]

\* the transition as it would be if update left next_state as it found it
ApplyTransitionKeepsNext(m, h, file) ==
    IF m.next_state = 0
    THEN [mgr |-> m, heap |-> h, calls |-> <<>>]
    ELSE LET old == m.current_state
             h1 == IF old # 0 THEN StateExit(h, old) ELSE h
             c1 == IF old # 0 THEN <<Ev("exit", old)>> ELSE <<>>
         IN  [mgr |-> [current_state |-> m.next_state, next_state |-> m.next_state],
              heap |-> StateEnter(h1, m.next_state, file),
              calls |-> c1 \o <<Ev("enter", m.next_state)>>]

\* the transition at the start of update: lines 22-28
ApplyTransition(m, h, file) ==
    IF m.next_state = 0
    THEN [mgr |-> m, heap |-> h, calls |-> <<>>]
    ELSE LET old == m.current_state
             h1 == IF old # 0 THEN StateExit(h, old) ELSE h
             c1 == IF old # 0 THEN <<Ev("exit", old)>> ELSE <<>>
         IN  [mgr |-> [current_state |-> m.next_state, next_state |-> 0],
              heap |-> StateEnter(h1, m.next_state, file),
              calls |-> c1 \o <<Ev("enter", m.next_state)>>]

-----------------------------------------------------------------------------
(* handle_event of the four states, for a KEYDOWN of the given key: the    *)
(* manager, the heap and whether the process goes on                       *)

Keys == {"UP", "DOWN", "RETURN", "ESCAPE"}

\* calls: what the handler called on another state object
Handled(m, h, go) == [mgr |-> m, heap |-> h, running |-> go, calls |-> <<>>]

Select(h, id, step) ==
    [h EXCEPT ![id].selected_option = (@ + step) % 2]

\* change_state(<a state object made here>)
ChangeToNew(m, h, rec) == Handled(ChangeState(m, FreshId(h)), Alloc(h, rec), TRUE)

\* MenuState.handle_event: src/menustate.py
MenuHandleEvent(m, h, id, key) ==
    CASE key = "UP" -> Handled(m, Select(h, id, -1), TRUE)
      [] key = "DOWN" -> Handled(m, Select(h, id, 1), TRUE)
      [] key = "RETURN" ->
            IF h[id].selected_option = 0
            THEN ChangeToNew(m, h, NewState("Playing", 0, 0))
            ELSE Handled(m, h, FALSE)
      [] key = "ESCAPE" -> Handled(m, h, FALSE)

\* PlayingState.handle_event as it would be if ESC led back to the menu
PlayingHandleEventToMenu(m, h, id, key) ==
    IF key = "ESCAPE"
    THEN ChangeToNew(m, h, NewState("Menu", 0, 0))
    ELSE Handled(m, h, TRUE)

\* PlayingState.handle_event: src/states/playingstate.py
PlayingHandleEvent(m, h, id, key) ==
    IF key = "ESCAPE"
    THEN ChangeToNew(m, h, NewState("Paused", id, 0))
    ELSE Handled(m, h, TRUE)

\* PausedState.handle_event: src/states/pausedstate.py
PausedHandleEvent(m, h, id, key) ==
    CASE key = "UP" -> Handled(m, Select(h, id, -1), TRUE)
      [] key = "DOWN" -> Handled(m, Select(h, id, 1), TRUE)
      [] key = "RETURN" ->
            IF h[id].selected_option = 0
            THEN Handled(ChangeState(m, h[id].playing_state), h, TRUE)
            ELSE [ChangeToNew(m, StateExit(h, h[id].playing_state),
                              NewState("Menu", 0, 0))
                     EXCEPT !.calls = <<Ev("playing_state.exit",
                                           h[id].playing_state)>>]
      [] key = "ESCAPE" -> Handled(ChangeState(m, h[id].playing_state), h, TRUE)

\* GameOverState.handle_event: src/gameoverstate.py
GameOverHandleEvent(m, h, id, key) ==
    CASE key = "UP" -> Handled(m, Select(h, id, -1), TRUE)
      [] key = "DOWN" -> Handled(m, Select(h, id, 1), TRUE)
      [] key = "RETURN" ->
            IF h[id].selected_option = 0
            THEN ChangeToNew(m, h, NewState("Playing", 0, 0))
            ELSE ChangeToNew(m, h, NewState("Menu", 0, 0))
      [] key = "ESCAPE" -> ChangeToNew(m, h, NewState("Menu", 0, 0))

StateHandleEvent(m, h, id, key) ==
    CASE h[id].kind = "Menu" -> MenuHandleEvent(m, h, id, key)
      [] h[id].kind = "Playing" -> PlayingHandleEvent(m, h, id, key)
      [] h[id].kind = "Paused" -> PausedHandleEvent(m, h, id, key)
      [] h[id].kind = "GameOver" -> GameOverHandleEvent(m, h, id, key)

-----------------------------------------------------------------------------
(* What a tick of PlayingState.update is given: where the entities end up, *)
(* whether the player fired and whether the field spawned an asteroid.     *)
(* Positions are taken from a few points of the middle row of the screen.  *)

Edge == <<0, SCREEN_HEIGHT \div 2>>
Lattice == {Edge, Center}

\* where the keys held down have taken the player
Poses == {[position |-> Edge, rotation |-> 0],
          [position |-> Center, rotation |-> 90]}

\* the scores followed: those near zero and those around the first threshold
ScoreInBounds(score) ==
    \/ score <= MaxScore
    \/ /\ score >= EXTRA_LIFE_THRESHOLD - MaxScore
       /\ score <= EXTRA_LIFE_THRESHOLD + MaxScore

UpdateInputs(s) ==
    {in \in [ppos : Lattice, prot : {0, 90}, shoot : BOOLEAN,
             spawn : {<<>>, <<Edge>>},
             apos : [1..Len(s.asteroids) -> Lattice],
             spos : [1..Len(s.shots) -> Lattice]] :
        /\ [position |-> in.ppos, rotation |-> in.prot] \in Poses
        /\ in.shoot => Len(s.shots) < MaxShots
        /\ in.spawn # <<>> => Len(s.asteroids) < MaxField}

-----------------------------------------------------------------------------
(* The program: the top-level loop polls events, updates and draws *)

\* the wall clock reads a time after the epoch
GameInit ==
    /\ now = 1
    /\ lm = NoManager
    /\ lmLast = Call("none", <<>>)
    /\ lmCalls = <<0>>
    /\ GameIdle
    /\ EntityIdle
    /\ SoundIdle
    /\ ScoreIdle
    /\ AsteroidIdle

\* the first state is queued by the program's entry point
Boot ==
    /\ running
    /\ mgr.current_state = 0 /\ mgr.next_state = 0
    /\ mgr' = ChangeState(mgr, FreshId(heap))
    /\ heap' = Alloc(heap, NewState("Menu", 0, 0))
    /\ calls' = <<>>
    /\ UNCHANGED <<now, livesVars, unitVars, partVars, hsFile, running>>

\* GameStateManager.update(dt)
Update ==
    /\ running
    /\ LET tr == ApplyTransition(mgr, heap, hsFile)
           cur == tr.mgr.current_state
       IN  IF cur = 0
           THEN /\ calls' = <<>>
                /\ UNCHANGED <<mgr, heap, hsFile>>
           ELSE IF tr.heap[cur].kind = "Playing"
                THEN \E in \in UpdateInputs(tr.heap[cur].session) :
                       LET r == PlayingUpdate(tr.heap[cur].session, in, now, hsFile)
                           h2 == [tr.heap EXCEPT ![cur].session = r.s]
                           h3 == IF r.request = <<>> THEN h2
                                 ELSE Alloc(h2, NewState("GameOver", 0, r.request[1]))
                           m3 == IF r.request = <<>> THEN tr.mgr
                                 ELSE ChangeState(tr.mgr, FreshId(h2))
                       IN  /\ calls' = tr.calls \o <<Ev("update", cur)>> \o r.log
                           /\ ScoreInBounds(GetScore(r.s.score_manager))
                           /\ Len(r.s.asteroids) <= MaxAsteroids
                           /\ mgr' = m3
                           /\ heap' = Collect(m3, h3)
                           /\ hsFile' = r.file
                ELSE /\ calls' = tr.calls \o <<Ev("update", cur)>>
                     /\ mgr' = tr.mgr
                     /\ heap' = Collect(tr.mgr, tr.heap)
                     /\ UNCHANGED hsFile
    /\ UNCHANGED <<now, livesVars, unitVars, partVars, running>>

\* GameStateManager.draw(screen); PausedState.draw draws the suspended state
Draw ==
    /\ running
    /\ LET cur == mgr.current_state
       IN  IF cur = 0
           THEN calls' = <<>> /\ UNCHANGED heap
           ELSE CASE heap[cur].kind = "Playing" ->
                       /\ calls' = <<Ev("draw", cur)>>
                       /\ heap' = [heap EXCEPT ![cur].session = PlayingDraw(@, now)]
                  [] heap[cur].kind = "Paused" ->
                       /\ calls' = <<Ev("draw", cur),
                                     Ev("playing_state.draw", heap[cur].playing_state)>>
                       /\ heap' = [heap EXCEPT ![heap[cur].playing_state].session =
                                                   PlayingDraw(@, now)]
                  [] OTHER ->
                       /\ calls' = <<Ev("draw", cur)>>
                       /\ UNCHANGED heap
    /\ UNCHANGED <<now, livesVars, unitVars, partVars, mgr, hsFile, running>>

\* GameStateManager.handle_event(event) for a key press
HandleEvent ==
    /\ running
    /\ \E key \in Keys :
          LET cur == mgr.current_state
              r == StateHandleEvent(mgr, heap, cur, key)
          IN  IF cur = 0
              THEN calls' = <<>> /\ UNCHANGED <<mgr, heap, running>>
              ELSE /\ calls' = <<Ev("handle_event", cur)>> \o r.calls
                   /\ mgr' = r.mgr
                   /\ heap' = Collect(r.mgr, r.heap)
                   /\ running' = r.running
    /\ UNCHANGED <<now, livesVars, unitVars, partVars, hsFile>>

\* the wall clock advances
Tock ==
    /\ running
    /\ now < MaxTick
    /\ now' = now + 1
    /\ calls' = <<>>
    /\ UNCHANGED <<livesVars, unitVars, partVars, mgr, heap, hsFile, running>>

Next ==
    \/ Boot
    \/ Update
    \/ Draw
    \/ HandleEvent
    \/ Tock

Spec == GameInit /\ [][Next]_vars

-----------------------------------------------------------------------------
(* A game in progress: the program some way into a session, with a score   *)
(* short of the first extra life, lives already lost, small asteroids left *)

Small == [position |-> Center, radius |-> ASTEROID_MIN_RADIUS]

MidSession(file, score, lives, asteroids) ==
    [EnterSession(Unentered, file) EXCEPT
                               !.score_manager.current_score = score,
                               !.lives_manager.current_lives = lives,
                               !.asteroids = asteroids]

SessionInit ==
    /\ now = 1
    /\ lm = NoManager
    /\ lmLast = Call("none", <<>>)
    /\ lmCalls = <<0>>
    /\ ScoreIdle
    /\ EntityIdle
    /\ SoundIdle
    /\ AsteroidIdle
    /\ hsFile = <<>>
    /\ running = TRUE
    /\ calls = <<>>
    /\ mgr = [current_state |-> 1, next_state |-> 0]
    /\ heap = [i \in {1} |->
                 [NewState("Playing", 0, 0) EXCEPT
                     !.active = TRUE,
                     !.session = MidSession(hsFile, EXTRA_LIFE_THRESHOLD - 100, 1,
                                            <<Small, Small>>)]]

SessionNext ==
    \/ Update
    \/ Draw
    \/ HandleEvent
    \/ Tock

SpecSession == SessionInit /\ [][SessionNext]_vars

-----------------------------------------------------------------------------
(* A volley: the same game with two shots in flight, fired one cooldown    *)
(* apart, and one small asteroid ahead of them                             *)

Volley ==
    <<[position |-> Center, radius |-> SHOT_RADIUS],
      [position |-> Center, radius |-> SHOT_RADIUS]>>

VolleyInit ==
    /\ now = 1
    /\ lm = NoManager
    /\ lmLast = Call("none", <<>>)
    /\ lmCalls = <<0>>
    /\ ScoreIdle
    /\ EntityIdle
    /\ SoundIdle
    /\ AsteroidIdle
    /\ hsFile = <<>>
    /\ running = TRUE
    /\ calls = <<>>
    /\ mgr = [current_state |-> 1, next_state |-> 0]
    /\ heap = [i \in {1} |->
                 [NewState("Playing", 0, 0) EXCEPT
                     !.active = TRUE,
                     !.session =
                        [MidSession(hsFile, EXTRA_LIFE_THRESHOLD - 100, 1, <<Small>>)
                            EXCEPT !.shots = Volley]]]

SpecVolley == VolleyInit /\ [][SessionNext]_vars

-----------------------------------------------------------------------------

(* The ScoreManager on its own: one manager on one high score file, any   *)
(* sequence of calls, and a fresh manager constructed on the same file.   *)

PointsArgs == {0 - 50, 0, 5000, EXTRA_LIFE_THRESHOLD, 25000}

Stores ==
    {MissingStore, Saved(0 - 5), Saved(0), Saved(5000), Saved(15000)}
        \cup {[kind |-> k, value |-> 0] :
                 k \in {"unreadable", "not_json", "non_object", "no_key",
                        "wrong_type"}}
        \cup {[kind |-> "bool", value |-> 1]}

ScoreCap == MaxThresholds * EXTRA_LIFE_THRESHOLD

ScoreInit ==
    /\ now = 1
    /\ lm = NoManager
    /\ lmLast = Call("none", <<>>)
    /\ lmCalls = <<0>>
    /\ GameIdle
    /\ EntityIdle
    /\ SoundIdle
    /\ AsteroidIdle
    /\ store \in Stores
    /\ smgr = ScoreManagerOn(store)
    /\ smLast = SmCall("init", 0, 0, FALSE, LoadStore(store).raised, NoManager)

AddScoreCall ==
    /\ smgr.exists
    /\ \E points \in PointsArgs :
          /\ smgr.obj.current_score + points <= ScoreCap
          /\ smgr' = IF AddScoreRaises(points) THEN smgr
                     ELSE Held(AddScore(smgr.obj, points))
          /\ smLast' = SmCall("add_score", points, 0, FALSE,
                              AddScoreRaises(points), smgr)
    /\ UNCHANGED <<now, livesVars, gameVars, partVars, store, ast, astLast>>

CheckExtraLifeCall ==
    /\ smgr.exists
    /\ smgr' = Held(CheckExtraLife(smgr.obj).sm)
    /\ smLast' = SmCall("check_extra_life", 0, 0,
                        CheckExtraLife(smgr.obj).ret, FALSE, smgr)
    /\ UNCHANGED <<now, livesVars, gameVars, partVars, store, ast, astLast>>

ResetScoreCall ==
    /\ smgr.exists
    /\ smgr' = Held(ResetScore(smgr.obj))
    /\ smLast' = SmCall("reset_score", 0, 0, FALSE, FALSE, smgr)
    /\ UNCHANGED <<now, livesVars, gameVars, partVars, store, ast, astLast>>

IsNewHighScoreCall ==
    /\ smgr.exists
    /\ smLast' = SmCall("is_new_high_score", 0, 0,
                        IsNewHighScore(smgr.obj), FALSE, smgr)
    /\ UNCHANGED <<now, livesVars, gameVars, partVars, smgr, store, ast, astLast>>

GetHighScoreCall ==
    /\ smgr.exists
    /\ smLast' = SmCall("get_high_score", 0, GetHighScore(smgr.obj),
                        FALSE, FALSE, smgr)
    /\ UNCHANGED <<now, livesVars, gameVars, partVars, smgr, store, ast, astLast>>

\* save_high_score(); flag records whether the file took the write
SaveHighScoreCall ==
    /\ smgr.exists
    /\ \E writable \in BOOLEAN :
          /\ smgr' = Held(SaveHighScoreOn(smgr.obj, store, writable).sm)
          /\ store' = SaveHighScoreOn(smgr.obj, store, writable).store
          /\ smLast' = SmCall("save_high_score", 0, 0, writable, FALSE, smgr)
    /\ UNCHANGED <<now, livesVars, gameVars, partVars, ast, astLast>>

\* ScoreManager(high_score_file) again, on the file as it is now
Reopen ==
    /\ smLast.op # "init"
    /\ smgr' = ScoreManagerOn(store)
    /\ smLast' = SmCall("init", 0, 0, FALSE, LoadStore(store).raised, smgr)
    /\ UNCHANGED <<now, livesVars, gameVars, partVars, store, ast, astLast>>

ScoreNext ==
    \/ AddScoreCall
    \/ CheckExtraLifeCall
    \/ ResetScoreCall
    \/ IsNewHighScoreCall
    \/ GetHighScoreCall
    \/ SaveHighScoreCall
    \/ Reopen

SpecScore == ScoreInit /\ [][ScoreNext]_vars

-----------------------------------------------------------------------------
(* Asteroid.split on its own: one asteroid as a test sets it up (groups,   *)
(* Asteroid.containers, velocity), split, and its children split in turn.  *)

Groups == {"asteroids", "updatable", "drawable"}

\* the groups the asteroid was constructed into and the groups bound in
\* Asteroid.containers when it is split: as the tests do (constructed
\* before the group is bound), as PlayingState.enter does, and with the
\* binding removed after construction
ContainersArgs == {<<{}, {"asteroids"}>>, <<Groups, Groups>>, <<Groups, {}>>}

RadiusArgs == {ASTEROID_MIN_RADIUS - 5, ASTEROID_MIN_RADIUS,
               ASTEROID_MIN_RADIUS + 10, 2 * ASTEROID_MIN_RADIUS,
               ASTEROID_KINDS * ASTEROID_MIN_RADIUS,
               ASTEROID_KINDS * ASTEROID_MIN_RADIUS + 10}

VelocityArgs == {Vec(0, 0, 1), Vec(20, 0, 1), Vec(12, 16, 1), Vec(50, 0, 1)}

\* random.uniform(30, 60): the angles with cosine 4/5 and 3/5
\* random.uniform(1.1, 1.5) in twentieths; random.uniform(-30, 30)
AngleArgs == {[cos |-> 4, sin |-> 3], [cos |-> 3, sin |-> 4]}
MultiplierArgs == {22, 25, 30}
PerpendicularArgs == {0 - 30, 0 - 15, 0, 30}

\* the draws of a split(): none is used when no child is created; any for
\* a velocity of whole length, and those without a perpendicular part
\* otherwise, so that the children's velocities are fractions
Draws(a) ==
    IF a.radius <= ASTEROID_MIN_RADIUS \/ IsZero(a.velocity)
    THEN {NoDraw}
    ELSE {d \in [base_angle : AngleArgs, speed_multiplier : MultiplierArgs,
                 perpendicular : PerpendicularArgs] :
             d.perpendicular = 0 \/ HasLength(a.velocity)}

SplitInit ==
    /\ now = 1
    /\ lm = NoManager
    /\ lmLast = Call("none", <<>>)
    /\ lmCalls = <<0>>
    /\ GameIdle
    /\ EntityIdle
    /\ SoundIdle
    /\ ScoreIdle
    /\ \E radius \in RadiusArgs, v \in VelocityArgs, c \in ContainersArgs :
          ast = [objects |->
                    <<[AsteroidNew(<<100, 100>>, radius, c[1])
                          EXCEPT !.velocity = v]>>,
                 containers |-> c[2],
                 done |-> {}]
    /\ astLast = AstCall("none", 0, <<>>, NoDraw, <<>>)

\* asteroid.split() on an asteroid that has not been split
SplitCall ==
    /\ \E id \in DOMAIN ast.objects \ ast.done :
          \E draw \in Draws(ast.objects[id]) :
             LET out == Split(ast.objects[id], ast.containers, draw)
             IN  /\ Len(ast.objects) + Len(out.children) <= MaxObjects
                 /\ ast' = [ast EXCEPT
                              !.objects = [@ EXCEPT ![id] = out.self]
                                             \o out.children,
                              !.done = @ \cup {id}]
                 /\ astLast' = AstCall("split", id, <<ast.objects[id]>>,
                                       draw, <<out>>)
    /\ UNCHANGED <<now, livesVars, gameVars, partVars, smgr, store, smLast>>

SplitNext == SplitCall

SpecSplit == SplitInit /\ [][SplitNext]_vars

-----------------------------------------------------------------------------
(* A cascade: one asteroid of a whole tier, registered with the game's     *)
(* groups, is split, and so is every asteroid that comes of it, until none *)
(* is left                                                                 *)

CascadeRadii == {k * ASTEROID_MIN_RADIUS : k \in 1..ASTEROID_KINDS}

\* the parent at rest, as it is constructed, or moving
CascadeVelocities == {Vec(0, 0, 1), Vec(20, 0, 1)}

CascadeInit ==
    /\ now = 1
    /\ lm = NoManager
    /\ lmLast = Call("none", <<>>)
    /\ lmCalls = <<0>>
    /\ GameIdle
    /\ EntityIdle
    /\ SoundIdle
    /\ ScoreIdle
    /\ \E radius \in CascadeRadii, v \in CascadeVelocities :
          ast = [objects |->
                    <<[AsteroidNew(<<100, 100>>, radius, Groups)
                          EXCEPT !.velocity = v]>>,
                 containers |-> Groups,
                 done |-> {}]
    /\ astLast = AstCall("none", 0, <<>>, NoDraw, <<>>)

\* asteroid.split() on any asteroid still in the groups
CascadeCall ==
    /\ \E id \in DOMAIN ast.objects \ ast.done :
          \E draw \in Draws(ast.objects[id]) :
             LET out == Split(ast.objects[id], ast.containers, draw)
             IN  /\ ast' = [ast EXCEPT
                              !.objects = [@ EXCEPT ![id] = out.self]
                                             \o out.children,
                              !.done = @ \cup {id}]
                 /\ astLast' = AstCall("split", id, <<ast.objects[id]>>,
                                       draw, <<out>>)
    /\ UNCHANGED <<now, livesVars, gameVars, partVars, smgr, store, smLast>>

SpecCascade == CascadeInit /\ [][CascadeCall]_vars

-----------------------------------------------------------------------------

(* A Player or an Asteroid on its own: one entity as a test places it, then *)
(* any sequence of wrap_screen, update, shoot and isColliding calls.  since *)
(* is the dt that has passed since the last shot was fired, <<>> before the *)
(* first; steps counts the calls that may change the entity.                *)

PositionArgs ==
    {<<-1, -1>>, <<0, SCREEN_HEIGHT>>, <<SCREEN_WIDTH, 0>>,
     <<SCREEN_WIDTH + 1, SCREEN_HEIGHT + 1>>,
     <<SCREEN_WIDTH - 1, SCREEN_HEIGHT \div 2>>}
SpeedArgs == {<<0, 0>>, <<1, 0>>, <<-2, -1>>}
DtArgs == {0, 1, PLAYER_SHOOT_COOLDOWN}
\* where the other shape of isColliding lies, seen from the entity
OtherArgs ==
    {[offset |-> <<0, 0>>, radius |-> SHOT_RADIUS],
     [offset |-> <<15, 20>>, radius |-> SHOT_RADIUS],
     [offset |-> <<15, 21>>, radius |-> SHOT_RADIUS],
     [offset |-> <<-24, -32>>, radius |-> ASTEROID_MIN_RADIUS],
     [offset |-> <<24, 33>>, radius |-> ASTEROID_MIN_RADIUS]}

EntityInit ==
    /\ now = 1
    /\ lm = NoManager
    /\ lmLast = Call("none", <<>>)
    /\ lmCalls = <<0>>
    /\ GameIdle
    /\ ScoreIdle
    /\ AsteroidIdle
    /\ SoundIdle
    /\ \E position \in PositionArgs, velocity \in SpeedArgs :
          \/ ent = [obj |-> [kind |-> "player", position |-> position,
                             velocity |-> <<0, 0>>, radius |-> PLAYER_RADIUS,
                             shoot_cooldown |-> 0],
                    shots |-> <<>>, since |-> <<>>, steps |-> 0]
          \/ ent = [obj |-> [kind |-> "asteroid", position |-> position,
                             velocity |-> velocity,
                             radius |-> ASTEROID_MIN_RADIUS,
                             shoot_cooldown |-> 0],
                    shots |-> <<>>, since |-> <<>>, steps |-> 0]
    /\ entLast = EntCall("none", 0, <<>>, NoShape, FALSE, <<>>)

\* entity.wrap_screen()
WrapScreenCall ==
    /\ ent.steps < MaxSteps
    /\ ent' = [ent EXCEPT
                 !.obj.position = IF ent.obj.kind = "player"
                                  THEN PlayerWrapScreen(@)
                                  ELSE AsteroidWrapScreen(@),
                 !.steps = @ + 1]
    /\ entLast' = EntCall("wrap_screen", 0, ent, NoShape, FALSE, <<>>)
    /\ UNCHANGED <<now, livesVars, gameVars, unitVars, snd, sndLast>>

\* asteroid.update(dt)
AsteroidUpdateCall ==
    /\ ent.steps < MaxSteps
    /\ ent.obj.kind = "asteroid"
    /\ \E dt \in DtArgs :
          /\ ent' = [ent EXCEPT !.obj = AsteroidUpdate(@, dt),
                                !.steps = @ + 1]
          /\ entLast' = EntCall("update", dt, ent, NoShape, FALSE, <<>>)
    /\ UNCHANGED <<now, livesVars, gameVars, unitVars, snd, sndLast>>

\* player.update(dt) with the keys as they are held
PlayerUpdateCall ==
    /\ ent.steps < MaxSteps
    /\ ent.obj.kind = "player"
    /\ \E dt \in DtArgs, space \in BOOLEAN, velocity \in SpeedArgs :
          LET out == PlayerUpdate(ent.obj, ent.shots, dt, space, velocity)
              waited == IF ent.since = <<>> THEN <<>>
                        ELSE <<ent.since[1] + dt>>
              fired == Len(out.shots) > Len(ent.shots)
          IN  /\ ent' = [obj |-> out.player, shots |-> out.shots,
                         since |-> IF fired THEN <<0>> ELSE waited,
                         steps |-> ent.steps + 1]
              /\ entLast' = EntCall("update", dt, ent, NoShape, FALSE,
                                    IF fired THEN waited ELSE <<>>)
    /\ UNCHANGED <<now, livesVars, gameVars, unitVars, snd, sndLast>>

\* player.shoot()
ShootCall ==
    /\ ent.steps < MaxSteps
    /\ ent.obj.kind = "player"
    /\ LET out == Shoot(ent.obj, ent.shots)
           fired == Len(out.shots) > Len(ent.shots)
       IN  /\ ent' = [obj |-> out.player, shots |-> out.shots,
                      since |-> IF fired THEN <<0>> ELSE ent.since,
                      steps |-> ent.steps + 1]
           /\ entLast' = EntCall("shoot", 0, ent, NoShape, FALSE,
                                 IF fired THEN ent.since ELSE <<>>)
    /\ UNCHANGED <<now, livesVars, gameVars, unitVars, snd, sndLast>>

\* entity.isColliding(other) and other.isColliding(entity)
IsCollidingCall ==
    /\ ent.obj.kind # "none"
    /\ \E o \in OtherArgs :
          LET other == [position |-> <<ent.obj.position[1] + o.offset[1],
                                       ent.obj.position[2] + o.offset[2]>>,
                        radius |-> o.radius]
          IN  entLast' = EntCall("isColliding", 0, ent, other,
                                 <<IsColliding(ent.obj, other),
                                   IsColliding(other, ent.obj)>>, <<>>)
    /\ UNCHANGED <<now, livesVars, gameVars, unitVars, ent, snd, sndLast>>

EntityNext ==
    \/ WrapScreenCall
    \/ AsteroidUpdateCall
    \/ PlayerUpdateCall
    \/ ShootCall
    \/ IsCollidingCall

SpecEntity == EntityInit /\ [][EntityNext]_vars

-----------------------------------------------------------------------------

(* The SoundManager on its own: a manager built with or without an audio   *)
(* device, then any sequence of calls of its methods, with files present   *)
(* or not and with the device failing or not.                              *)

SoundKeys == {"shoot", "test"}
MusicFiles == {"menu.mp3", "game.mp3"}

SoundInit ==
    /\ now = 1
    /\ lm = NoManager
    /\ lmLast = Call("none", <<>>)
    /\ lmCalls = <<0>>
    /\ GameIdle
    /\ ScoreIdle
    /\ AsteroidIdle
    /\ EntityIdle
    /\ \E mixer_ok \in BOOLEAN, present \in SUBSET SoundKeys :
          snd = [m |-> SoundManagerNew(mixer_ok, present),
                 dev |-> SilentDevice, steps |-> 0]
    /\ sndLast = SndCall("init", <<>>, "None", FALSE)

\* the call op was made and gave out
Applied(op, out) ==
    /\ snd.steps < MaxSoundCalls
    /\ snd' = [m |-> out.m, dev |-> out.dev, steps |-> snd.steps + 1]
    /\ sndLast' = SndCall(op, snd, out.ret, out.raised)
    /\ UNCHANGED <<now, livesVars, gameVars, unitVars, ent, entLast>>

LoadSoundCall ==
    \E key \in SoundKeys, exists \in BOOLEAN, fails \in Fails :
       Applied("load_sound", LoadSound(snd.m, snd.dev, key, exists, fails))

PlaySoundCall ==
    \E key \in SoundKeys, fails \in Fails :
       Applied("play_sound", PlaySound(snd.m, snd.dev, key, fails))

PlayMusicCall ==
    \E file \in MusicFiles, exists \in BOOLEAN, fails \in Fails :
       Applied("play_music", PlayMusic(snd.m, snd.dev, file, exists, fails))

StopMusicCall ==
    \E fails \in Fails :
       Applied("stop_music", StopMusic(snd.m, snd.dev, fails))

PauseMusicCall ==
    \E fails \in Fails :
       Applied("pause_music", PauseMusic(snd.m, snd.dev, fails))

UnpauseMusicCall ==
    \E fails \in Fails :
       Applied("unpause_music", UnpauseMusic(snd.m, snd.dev, fails))

IsMusicPlayingCall ==
    \E fails \in Fails :
       Applied("is_music_playing", IsMusicPlaying(snd.m, snd.dev, fails))

FadeOutMusicCall ==
    \E fails \in Fails :
       Applied("fade_out_music", FadeOutMusic(snd.m, snd.dev, fails))

FadeInMusicCall ==
    \E file \in MusicFiles, exists \in BOOLEAN, fails \in Fails :
       Applied("fade_in_music",
               FadeInMusic(snd.m, snd.dev, file, exists, fails))

CrossfadeMusicCall ==
    \E file \in MusicFiles, exists \in BOOLEAN,
       fails \in [1..3 -> Fails] :
       Applied("crossfade_music",
               CrossfadeMusic(snd.m, snd.dev, file, exists, fails))

SoundNext ==
    \/ LoadSoundCall
    \/ PlaySoundCall
    \/ PlayMusicCall
    \/ StopMusicCall
    \/ PauseMusicCall
    \/ UnpauseMusicCall
    \/ IsMusicPlayingCall
    \/ FadeOutMusicCall
    \/ FadeInMusicCall
    \/ CrossfadeMusicCall

SpecSound == SoundInit /\ [][SoundNext]_vars

-----------------------------------------------------------------------------

(* Claims about the LivesManager, checked under SpecLives *)

Elapsed(m) == now - m.invincibility_start_time

\* C6: for a manager constructed with n >= 1 lives and no add_life/reset_lives
\* since, the k-th lose_life() returns True iff k >= n and leaves
\* get_lives() = max(0, n - k).
C6_LoseLifeSequence ==
    (lm.exists /\ lmCalls # Tainted /\ lm.initial_lives >= 1) =>
        /\ GetLives(lm) = Max(0, lm.initial_lives - lmCalls[1])
        /\ lmLast.op = "lose_life" =>
              (lmLast.val[1] <=> (lmCalls[1] >= lm.initial_lives))

\* the fourth lose_life() on a manager of three lives: True again, lives still 0
C6_Witness ==
    /\ lm.exists /\ lm.initial_lives = 3 /\ lmCalls = <<4>>
    /\ lmLast = Call("lose_life", <<TRUE>>)
    /\ GetLives(lm) = 0

\* C7: after any calls, current_lives >= 0 and is_game_over() is true exactly
\* when current_lives = 0.
C7_LivesNonNegative ==
    lm.exists => /\ lm.current_lives >= 0
                 /\ IsGameOver(lm) <=> (lm.current_lives = 0)

\* add_life() at 0 lives: the game is no longer over
C7_Witness ==
    /\ lm.exists /\ lmLast.op = "add_life"
    /\ lm.current_lives = 1 /\ ~IsGameOver(lm)

C8_Inv ==
    lm.exists =>
        /\ (lmLast.op = "is_invincible" /\ Elapsed(lm) >= lm.invincibility_duration)
              => ~lmLast.val[1]
        /\ (/\ lmLast.op = "time_remaining"
            /\ (~lm.is_invincible_active \/ Elapsed(lm) >= lm.invincibility_duration))
              => lmLast.val[1] = 0

C8_Step ==
    (lm.exists /\ lm'.exists) =>
        /\ (/\ lmLast'.op = "lose_life"
            /\ lm.current_lives > 0
            /\ lm.invincibility_duration > 0)
              => IsInvincible(lm', now').ret
        /\ (/\ lm.is_invincible_active
            /\ lm'.invincibility_start_time = lm.invincibility_start_time)
              => GetInvincibilityTimeRemaining(lm', now')
                    <= GetInvincibilityTimeRemaining(lm, now)

\* C8: right after a lose_life() that decrements (duration > 0) is_invincible()
\* is true; once the clock is duration or more past the start is_invincible()
\* returns false and get_invincibility_time_remaining() returns exactly 0; and
\* within one invincibility period the remaining time never increases.
C8_InvincibilityWindow == []C8_Inv /\ [][C8_Step]_vars

\* the period has run out but nobody asked is_invincible() yet: remaining is 0
C8_Witness ==
    /\ lm.exists /\ lm.is_invincible_active
    /\ lm.invincibility_duration > 0
    /\ Elapsed(lm) >= lm.invincibility_duration
    /\ lmLast = Call("time_remaining", <<0>>)

C9_Inv ==
    (lm.exists /\ lmLast.op = "is_invincible" /\ lm.is_invincible_active)
        => Elapsed(lm) < lm.invincibility_duration

C9_Step ==
    (lm.exists /\ lm'.exists) =>
        /\ lmLast'.op = "time_remaining"
              => lm'.is_invincible_active = lm.is_invincible_active
        /\ (lm.is_invincible_active /\ ~lm'.is_invincible_active)
              => lmLast'.op \in {"is_invincible", "reset_lives"}

\* C9: expiry is lazy: when is_invincible() has returned, the flag is set only
\* if now - start < duration; get_invincibility_time_remaining() never changes
\* the flag; the flag goes from true to false only in is_invincible() or
\* reset_lives().
C9_LazyExpiry == []C9_Inv /\ [][C9_Step]_vars

\* is_invincible() has just cleared the flag of a period that began after time 0
C9_Witness ==
    /\ lm.exists /\ lmLast = Call("is_invincible", <<FALSE>>)
    /\ ~lm.is_invincible_active
    /\ lm.invincibility_start_time > 0
    /\ lm.invincibility_duration > 0

Negative(opt) == opt # None /\ opt[1] < 0

\* C10: constructing with initial_lives < 0 or invincibility_duration < 0
\* raises and yields no manager; 0 lives and a duration of 0 are accepted.
C10_ConstructorValidation ==
    lmLast.op = "init" =>
        /\ (Negative(lmLast.val[1]) \/ Negative(lmLast.val[2])) <=> ~lm.exists
        /\ lmLast.val = <<Some(0), Some(0)>> =>
              (lm.exists /\ lm.current_lives = 0 /\ lm.invincibility_duration = 0)

\* a valid count with a negative duration is refused
C10_Witness ==
    /\ lmLast = Call("init", <<Some(0), Some(-1)>>)
    /\ ~lm.exists


-----------------------------------------------------------------------------
(* Claims about the game.  calls is the log of the last step: what the     *)
(* manager called and, after its "update" entry, what PlayingState.update  *)
(* did.                                                                    *)

RECURSIVE CountOp(_, _)
CountOp(log, op) ==
    IF log = <<>> THEN 0
    ELSE (IF Head(log).op = op THEN 1 ELSE 0) + CountOp(Tail(log), op)

RECURSIVE SumOp(_, _)
SumOp(log, op) ==
    IF log = <<>> THEN 0
    ELSE (IF Head(log).op = op THEN Head(log).arg ELSE 0) + SumOp(Tail(log), op)

Has(log, e) == \E k \in 1..Len(log) : log[k] = e

\* the step was a GameStateManager.update that reached a state's update
Updated == CountOp(calls', "update") = 1

\* the step was a tick of PlayingState.update
Ticked ==
    /\ Updated
    /\ heap'[mgr'.current_state].kind = "Playing"

\* what PlayingState.update did in the step
TickLog ==
    LET k == CHOOSE k \in 1..Len(calls') : calls'[k].op = "update"
    IN  SubSeq(calls', k + 1, Len(calls'))

\* the session the tick started from and the one it left
Before ==
    IF mgr.next_state = 0 THEN heap[mgr.current_state].session
    ELSE EnterSession(heap[mgr.next_state].session, hsFile)
After == heap'[mgr'.current_state].session

\* C1: change_state(X) only stores X: outside GameStateManager.update the
\* current state stays and no state is entered, and the queued state has not
\* been entered; the update that finds X queued calls exit() of the outgoing
\* state exactly once, then X.enter(), then X.update(), and X is the current
\* state, to which update, draw and handle_event are delegated.
C1_Inv ==
    /\ mgr.next_state # 0 => ~heap[mgr.next_state].active
    /\ \A i \in DOMAIN heap : heap[i].active => i = mgr.current_state
    /\ \A k \in 1..Len(calls) :
          calls[k].op \in {"enter", "update", "draw", "handle_event"}
             => calls[k].arg = mgr.current_state
C1_Step ==
    LET X == mgr.next_state
        old == mgr.current_state
    IN  /\ ~Updated =>
              /\ mgr'.current_state = old
              /\ CountOp(calls', "enter") = 0 /\ CountOp(calls', "exit") = 0
              /\ \A i \in DOMAIN heap' :
                    heap'[i].active => i \in DOMAIN heap /\ heap[i].active
        /\ Updated /\ X = 0 =>
              /\ mgr'.current_state = old
              /\ calls'[1] = Ev("update", old)
        /\ Updated /\ X # 0 =>
              /\ mgr'.current_state = X
              /\ heap'[X].active
              /\ CountOp(calls', "enter") = 1
              /\ IF old = 0
                 THEN /\ CountOp(calls', "exit") = 0
                      /\ SubSeq(calls', 1, 2) = <<Ev("enter", X), Ev("update", X)>>
                 ELSE /\ CountOp(calls', "exit") = 1
                      /\ SubSeq(calls', 1, 3)
                            = <<Ev("exit", old), Ev("enter", X), Ev("update", X)>>
C1_DeferredTransition == []C1_Inv /\ [][C1_Step]_vars
C1_Witness ==
    /\ Len(calls) >= 3
    /\ calls[1].op = "exit" /\ calls[2].op = "enter" /\ calls[3].op = "update"
    /\ heap[mgr.current_state].kind = "Paused"

Kept(a, b) ==
    /\ a.asteroids = b.asteroids
    /\ a.shots = b.shots
    /\ a.player = b.player
    /\ GetScore(a.score_manager) = GetScore(b.score_manager)
    /\ GetLives(a.lives_manager) = GetLives(b.lives_manager)

\* the step is the update that applies Playing -> Paused
PauseApplied ==
    /\ mgr.current_state # 0 /\ mgr.next_state # 0
    /\ heap[mgr.current_state].kind = "Playing"
    /\ heap[mgr.next_state].kind = "Paused"
    /\ heap[mgr.next_state].playing_state = mgr.current_state
    /\ mgr'.current_state = mgr.next_state

\* the step is the update that applies Paused -> Playing
ResumeApplied ==
    /\ mgr.current_state # 0 /\ mgr.next_state # 0
    /\ heap[mgr.current_state].kind = "Paused"
    /\ heap[mgr.current_state].playing_state = mgr.next_state
    /\ mgr'.current_state = mgr.next_state

\* C2: pause and resume keep the session: the update that applies
\* Playing -> Paused leaves the suspended PlayingState's asteroids, shots,
\* ship, score and lives as they were, and the update that applies
\* Paused -> Playing resumes that instance with the score and the lives it
\* had, changed only by what its own tick then does.
C2_Step ==
    /\ PauseApplied =>
          Kept(heap[mgr.current_state].session, heap'[mgr.current_state].session)
    /\ ResumeApplied =>
          /\ GetScore(After.score_manager)
                = GetScore(heap[mgr.next_state].session.score_manager)
                    + SumOp(TickLog, "split")
          /\ GetLives(After.lives_manager)
                = GetLives(heap[mgr.next_state].session.lives_manager)
                    - CountOp(TickLog, "lose_life") + CountOp(TickLog, "add_life")
C2_PauseResumeKeepsSession == [][C2_Step]_vars

\* C3: a tick in which lose_life() returns true calls save_high_score() and
\* then change_state with a GameOverState whose final_score is the score,
\* and does nothing after that: the file holds the high score, which is at
\* least the score, and the GameOverState is queued, not entered.
C3_Step ==
    (Ticked /\ CountOp(TickLog, "lose_life") > 0
            /\ SumOp(TickLog, "lose_life") > 0) =>
        LET n == Len(TickLog)
            score == GetScore(After.score_manager)
        IN  /\ n >= 3
            /\ SubSeq(TickLog, n - 2, n)
                  = <<Ev("lose_life", 1), Ev("save_high_score", 0),
                      Ev("change_state", score)>>
            /\ CountOp(TickLog, "lose_life") = 1
            /\ GetLives(After.lives_manager) = 0
            /\ hsFile' = <<After.score_manager.high_score>>
            /\ hsFile'[1] >= score
            /\ hsFile'[1] = Max(LoadHighScore(hsFile), score)
            /\ mgr'.next_state # 0
            /\ heap'[mgr'.next_state].kind = "GameOver"
            /\ heap'[mgr'.next_state].final_score = score
            /\ ~heap'[mgr'.next_state].active
C3_GameOverSequence == [][C3_Step]_vars
\* the tick of a game over that left a shot on an asteroid
C3_Witness ==
    /\ Has(calls, Ev("lose_life", 1))
    /\ mgr.next_state # 0
    /\ heap[mgr.next_state].kind = "GameOver"
    /\ hsFile = <<EXTRA_LIFE_THRESHOLD - 100>>
    /\ LET s == heap[mgr.current_state].session
       IN  \E i \in 1..Len(s.asteroids), j \in 1..Len(s.shots) :
              IsColliding(s.asteroids[i], s.shots[j])

\* C4: a tick that starts with is_invincible() true loses no life; a tick
\* with a hit that is not game over leaves the ship at
\* (SCREEN_WIDTH/2, SCREEN_HEIGHT/2) with rotation 0 and, the invincibility
\* duration being positive, is_invincible() true.
C4_Step ==
    Ticked =>
        /\ IsInvincible(Before.lives_manager, now).ret =>
              /\ CountOp(TickLog, "lose_life") = 0
              /\ GetLives(After.lives_manager) >= GetLives(Before.lives_manager)
        /\ Has(TickLog, Ev("lose_life", 0)) =>
              /\ After.player.position
                    = <<SCREEN_WIDTH \div 2, SCREEN_HEIGHT \div 2>>
              /\ After.player.rotation = 0
              /\ After.lives_manager.invincibility_duration > 0 =>
                    IsInvincible(After.lives_manager, now').ret
C4_InvincibilityAndRespawn == [][C4_Step]_vars
\* a tick after an earlier hit: an asteroid on the ship, the ship still
\* invincible, no life lost
C4_Witness ==
    /\ mgr.current_state # 0
    /\ heap[mgr.current_state].kind = "Playing"
    /\ Has(calls, Ev("update", mgr.current_state))
    /\ CountOp(calls, "lose_life") = 0
    /\ LET s == heap[mgr.current_state].session
       IN  /\ GetLives(s.lives_manager) = DEFAULT_INITIAL_LIVES - 1
           /\ IsInvincible(s.lives_manager, now).ret
           /\ s.player.rotation # 0
           /\ \E i \in 1..Len(s.asteroids) : IsColliding(s.asteroids[i], s.player)

\* C5: in a tick the score grows by exactly the points the split() calls
\* returned; every split() is followed by add_score of its points, by
\* add_life exactly when check_extra_life() returned true, and by the kill
\* of the shot; the lives change by the lives lost and the lives added; and
\* every collision takes one shot out of the group, so that no shot
\* destroys two asteroids.
C5_Step ==
    Ticked =>
        LET n == Len(TickLog)
        IN  /\ GetScore(After.score_manager)
                  = GetScore(Before.score_manager) + SumOp(TickLog, "split")
            /\ \A i \in 1..n :
                  TickLog[i].op = "split" =>
                     /\ i + 3 <= n
                     /\ TickLog[i + 1] = Ev("add_score", TickLog[i].arg)
                     /\ TickLog[i + 2].op = "check_extra_life"
                     /\ IF TickLog[i + 2].arg = 1
                        THEN /\ i + 4 <= n
                             /\ TickLog[i + 3] = Ev("add_life", 0)
                             /\ TickLog[i + 4] = Ev("kill_shot", 0)
                        ELSE TickLog[i + 3] = Ev("kill_shot", 0)
            /\ CountOp(TickLog, "add_life") = SumOp(TickLog, "check_extra_life")
            /\ GetLives(After.lives_manager)
                  = GetLives(Before.lives_manager)
                      - CountOp(TickLog, "lose_life") + CountOp(TickLog, "add_life")
            /\ CountOp(TickLog, "kill_shot") = CountOp(TickLog, "split")
            /\ Len(After.shots)
                  = Len(Before.shots) + CountOp(TickLog, "shoot")
                      - CountOp(TickLog, "split")
C5_ShotCollisions == [][C5_Step]_vars
\* a tick in which a shot destroyed the first of the two small asteroids and
\* its split() took the score to the threshold
C5_Witness ==
    /\ mgr.current_state # 0
    /\ heap[mgr.current_state].kind = "Playing"
    /\ CountOp(calls, "split") = 1
    /\ CountOp(calls, "add_life") = 1
    /\ LET s == heap[mgr.current_state].session
       IN  /\ GetScore(s.score_manager) = EXTRA_LIFE_THRESHOLD
           /\ GetLives(s.lives_manager) = 2
           /\ s.shots = <<>>
           /\ s.asteroids = <<Small>>

-----------------------------------------------------------------------------
(* Claims about the ScoreManager, checked under SpecScore *)

Marker(m) == m.last_extra_life_score

(* C11: add_score(p) with p < 0 raises and leaves current_score,          *)
(* high_score and last_extra_life_score as they were; with p >= 0 it adds *)
(* p to current_score and changes nothing else.                           *)
C11_AddScoreContract ==
    smLast.op = "add_score" =>
        IF smLast.arg < 0
        THEN smLast.raised /\ smgr = smLast.pre
        ELSE /\ ~smLast.raised
             /\ smgr.obj.current_score =
                    smLast.pre.obj.current_score + smLast.arg
             /\ smgr.obj.high_score = smLast.pre.obj.high_score
             /\ Marker(smgr.obj) = Marker(smLast.pre.obj)

\* a negative amount refused by a manager that holds a score, a high score
\* and a marker
C11_Witness ==
    /\ smLast.op = "add_score"
    /\ smLast.arg < 0
    /\ smLast.raised
    /\ smgr.obj.current_score = 15000
    /\ smgr.obj.high_score = 5000
    /\ Marker(smgr.obj) = EXTRA_LIFE_THRESHOLD

(* C12: check_extra_life() returns true exactly when current_score is at  *)
(* least last_extra_life_score + EXTRA_LIFE_THRESHOLD, and after any call *)
(* the score is below the marker plus the threshold, so that a further    *)
(* call returns false until the score has grown to the next multiple.     *)
C12_ExtraLifeOnce ==
    smLast.op = "check_extra_life" =>
        /\ smLast.flag = (smLast.pre.obj.current_score >=
                            Marker(smLast.pre.obj) + EXTRA_LIFE_THRESHOLD)
        /\ smgr.obj.current_score < Marker(smgr.obj) + EXTRA_LIFE_THRESHOLD
        /\ ~CheckExtraLife(smgr.obj).ret

\* a call that returns false between two thresholds, the first one awarded
C12_Witness ==
    /\ smLast.op = "check_extra_life"
    /\ ~smLast.flag
    /\ Marker(smLast.pre.obj) = EXTRA_LIFE_THRESHOLD
    /\ smLast.pre.obj.current_score = 15000

(* C13: a check_extra_life() that returns true sets last_extra_life_score *)
(* to floor(current_score / EXTRA_LIFE_THRESHOLD) * EXTRA_LIFE_THRESHOLD, *)
(* however many thresholds the score crossed, and the next call returns   *)
(* false; in every state the marker is a multiple of the threshold and is *)
(* at most current_score.                                                 *)
C13_MarkerSnaps ==
    smgr.exists =>
        /\ Marker(smgr.obj) % EXTRA_LIFE_THRESHOLD = 0
        /\ Marker(smgr.obj) <= smgr.obj.current_score
        /\ (smLast.op = "check_extra_life" /\ smLast.flag) =>
              /\ Marker(smgr.obj) =
                    (smgr.obj.current_score \div EXTRA_LIFE_THRESHOLD)
                        * EXTRA_LIFE_THRESHOLD
              /\ ~CheckExtraLife(smgr.obj).ret

\* one add_score(25000) from 0 crossed two thresholds and the check that
\* followed moved the marker from 0 to 20000
C13_Witness ==
    /\ smLast.op = "check_extra_life"
    /\ smLast.flag
    /\ smLast.pre.obj.current_score = 25000
    /\ Marker(smLast.pre.obj) = 0
    /\ Marker(smgr.obj) = 2 * EXTRA_LIFE_THRESHOLD

(* C14: current_score is never negative, and no call other than           *)
(* reset_score (or the construction of a new manager) lowers it.          *)
C14_ScoreMonotonic ==
    smgr.exists =>
        /\ smgr.obj.current_score >= 0
        /\ smLast.op \in {"add_score", "check_extra_life", "save_high_score",
                          "is_new_high_score", "get_high_score"} =>
              smgr.obj.current_score >= smLast.pre.obj.current_score

\* a check that awarded a life and a save that wrote the file both left the
\* score of 10000 as it was
C14_Witness ==
    /\ smLast.op = "save_high_score"
    /\ smLast.flag
    /\ smLast.pre.obj.current_score = EXTRA_LIFE_THRESHOLD
    /\ Marker(smLast.pre.obj) = EXTRA_LIFE_THRESHOLD
    /\ smgr.obj.current_score = EXTRA_LIFE_THRESHOLD

(* C15: when save_high_score() on a manager with score s and high score h *)
(* has written the file, a ScoreManager constructed next on that file has *)
(* get_high_score() = max(s, h).                                          *)
C15_Step ==
    (smLast.op = "save_high_score" /\ smLast.flag /\ smLast'.op = "init") =>
        /\ smgr'.exists
        /\ GetHighScore(smgr'.obj) =
              Max(smLast.pre.obj.current_score, smLast.pre.obj.high_score)

Invalid(st) ==
    \/ st.kind \in {"missing", "unreadable", "not_json", "non_object",
                    "no_key", "wrong_type", "bool"}
    \/ st.kind = "int" /\ st.value < 0

(* C16: load_high_score() never raises, and every construction on a       *)
(* missing, unreadable or invalid file has high_score 0.                  *)
C16_LoadNeverRaises ==
    smLast.op = "init" =>
        /\ ~smLast.raised
        /\ smgr.exists
        /\ Invalid(store) => GetHighScore(smgr.obj) = 0

-----------------------------------------------------------------------------
(* Claims about Asteroid.split, checked under SpecSplit *)

SplitOf == astLast.pre[1]       \* the asteroid as it was when split() was called
SplitOut == astLast.out[1]      \* what that split() did

\* a component of a vector as a fraction in lowest terms
Component(n, den) == <<n \div GCD(Abs(n), den), den \div GCD(Abs(n), den)>>

\* the direction of a nonzero vector, up to its sense
Direction(v) ==
    LET g == GCD(Abs(v.x), Abs(v.y))
    IN  IF v.x < 0 \/ (v.x = 0 /\ v.y < 0)
        THEN <<(0 - v.x) \div g, (0 - v.y) \div g>>
        ELSE <<v.x \div g, v.y \div g>>

Collinear(v, w) == Direction(v) = Direction(w)

(* C17: split() returns 20 for radius >= ASTEROID_MIN_RADIUS *            *)
(* ASTEROID_KINDS, else 50 for radius >= 2 * ASTEROID_MIN_RADIUS, else    *)
(* 100, and it creates no asteroid when radius <= ASTEROID_MIN_RADIUS and *)
(* exactly two otherwise.                                                 *)
C17_PointsAndChildren ==
    astLast.op = "split" =>
        /\ SplitOut.returned
        /\ SplitOut.points =
              IF SplitOf.radius >= ASTEROID_MIN_RADIUS * ASTEROID_KINDS THEN 20
              ELSE IF SplitOf.radius >= 2 * ASTEROID_MIN_RADIUS THEN 50
              ELSE 100
        /\ Len(SplitOut.children) =
              IF SplitOf.radius <= ASTEROID_MIN_RADIUS THEN 0 ELSE 2

(* C18: when the parent's velocity is not zero, the velocities of the two *)
(* children are both nonzero, differ in x and differ in y, and are not    *)
(* collinear.                                                             *)
C18_ChildrenDiverge ==
    (astLast.op = "split" /\ ~IsZero(SplitOf.velocity)
        /\ Len(SplitOut.children) = 2) =>
        LET v1 == SplitOut.children[1].velocity
            v2 == SplitOut.children[2].velocity
        IN  /\ ~IsZero(v1)
            /\ ~IsZero(v2)
            /\ v1 # v2
            /\ Component(v1.x, v1.den) # Component(v2.x, v2.den)
            /\ Component(v1.y, v1.den) # Component(v2.y, v2.den)
            /\ ~Collinear(v1, v2)

(* C19: the points split() computes, and returns whenever it returns, are *)
(* those of ScoreManager.get_points_for_asteroid_size for the radius.     *)
C19_TiersAgree ==
    astLast.op = "split" =>
        SplitOut.points = GetPointsForAsteroidSize(SplitOf.radius)

\* a returning split() of an asteroid between the small and the medium tier
C19_Witness ==
    /\ astLast.op = "split"
    /\ SplitOf.radius = ASTEROID_MIN_RADIUS + 10
    /\ SplitOut.returned
    /\ SplitOut.points = SMALL_ASTEROID_POINTS
    /\ Len(ast.objects) = 3

-----------------------------------------------------------------------------
(* Claims about Player and Asteroid as moving shapes, checked under         *)
(* SpecEntity                                                               *)

\* where the last wrap_screen() or update(dt) call found the entity before
\* wrapping: where it was, moved by dt at the velocity it has for an update
Unwrapped ==
    LET p == entLast.pre.obj.position
        v == ent.obj.velocity
    IN  IF entLast.op = "update"
        THEN <<p[1] + v[1] * entLast.dt, p[2] + v[2] * entLast.dt>>
        ELSE p

WrappedAxis(i, bound) ==
    /\ Unwrapped[i] < 0 => ent.obj.position[i] = bound
    /\ Unwrapped[i] > bound => ent.obj.position[i] = 0
    /\ (0 <= Unwrapped[i] /\ Unwrapped[i] <= bound)
          => ent.obj.position[i] = Unwrapped[i]

(* C21: wrap_screen() of Player and Asteroid treats each axis on its own:  *)
(* a coordinate below 0 becomes the screen bound, a coordinate above the   *)
(* bound becomes 0, a coordinate inside the screen stays; update(dt) wraps *)
(* in this way the position it has moved the entity to.                    *)
C21_WrapPerAxis ==
    entLast.op \in {"wrap_screen", "update"}
       => WrappedAxis(1, SCREEN_WIDTH) /\ WrappedAxis(2, SCREEN_HEIGHT)

\* an update moved an entity off the left edge only: x wrapped, y stayed
C21_Witness ==
    /\ entLast.op = "update"
    /\ Unwrapped[1] < 0
    /\ Unwrapped[2] > 0 /\ Unwrapped[2] < SCREEN_HEIGHT
    /\ ent.obj.position = <<SCREEN_WIDTH, Unwrapped[2]>>
    /\ entLast.pre.obj.position[1] >= 0

(* C22 as stated: after every Player.update(dt) and Asteroid.update(dt)    *)
(* the position lies in the half-open ranges 0 <= x < SCREEN_WIDTH and     *)
(* 0 <= y < SCREEN_HEIGHT.                                                 *)
C22_HalfOpenAfterUpdate ==
    entLast.op = "update"
       => /\ 0 <= ent.obj.position[1] /\ ent.obj.position[1] < SCREEN_WIDTH
          /\ 0 <= ent.obj.position[2] /\ ent.obj.position[2] < SCREEN_HEIGHT

(* C22, amended: after every Player.update(dt) and Asteroid.update(dt) the *)
(* position lies in the closed ranges 0 <= x <= SCREEN_WIDTH and           *)
(* 0 <= y <= SCREEN_HEIGHT.                                                *)
C22_ClosedAfterUpdate ==
    entLast.op = "update"
       => /\ 0 <= ent.obj.position[1] /\ ent.obj.position[1] <= SCREEN_WIDTH
          /\ 0 <= ent.obj.position[2] /\ ent.obj.position[2] <= SCREEN_HEIGHT

\* an update that took an entity from inside the screen over the left edge
\* left it on the right bound itself
C22_Witness ==
    /\ entLast.op = "update"
    /\ entLast.pre.obj.position[1] >= 0
    /\ entLast.pre.obj.position[1] < SCREEN_WIDTH
    /\ ent.obj.position[1] = SCREEN_WIDTH

\* the squared distance between the entity and the other shape of the last
\* isColliding call, and the square of the sum of their radii
Apart ==
    LET p == entLast.pre.obj.position
        q == entLast.other.position
    IN  (p[1] - q[1]) * (p[1] - q[1]) + (p[2] - q[2]) * (p[2] - q[2])
Reach ==
    (entLast.pre.obj.radius + entLast.other.radius)
       * (entLast.pre.obj.radius + entLast.other.radius)

(* C23: a.isColliding(b) is true exactly when the distance between the two *)
(* positions is at most the sum of the radii, touching shapes included,    *)
(* and b.isColliding(a) gives the same answer.                             *)
C23_CollidingIffWithinReach ==
    entLast.op = "isColliding"
       => /\ entLast.ret[1] <=> (Apart <= Reach)
          /\ entLast.ret[1] = entLast.ret[2]

\* two shapes that touch exactly, and two that miss by less than a pixel
C23_Witness ==
    /\ entLast.op = "isColliding"
    /\ Apart = Reach
    /\ entLast.ret = <<TRUE, TRUE>>
    /\ entLast.pre.obj.position # entLast.other.position
C23_WitnessApart ==
    /\ entLast.op = "isColliding"
    /\ Apart > Reach
    /\ entLast.ret = <<FALSE, FALSE>>

(* C24: shoot() with shoot_cooldown > 0 creates no shot and changes        *)
(* nothing; otherwise it creates exactly one Shot at the ship's position   *)
(* and sets shoot_cooldown to PLAYER_SHOOT_COOLDOWN; and whenever a shot   *)
(* is created after an earlier one, by shoot() or inside update(dt), the   *)
(* dt that passed between the two is at least PLAYER_SHOOT_COOLDOWN.       *)
C24_CooldownBetweenShots ==
    /\ entLast.op = "shoot"
          => LET before == entLast.pre
             IN  IF before.obj.shoot_cooldown > 0
                 THEN ent.obj = before.obj /\ ent.shots = before.shots
                 ELSE /\ Len(ent.shots) = Len(before.shots) + 1
                      /\ SubSeq(ent.shots, 1, Len(before.shots)) = before.shots
                      /\ ent.shots[Len(ent.shots)].position
                            = before.obj.position
                      /\ ent.obj = [before.obj EXCEPT
                                      !.shoot_cooldown = PLAYER_SHOOT_COOLDOWN]
    /\ entLast.gap # <<>> => entLast.gap[1] >= PLAYER_SHOOT_COOLDOWN

\* a second shot fired the moment the cooldown had run out
C24_Witness ==
    /\ Len(ent.shots) = 2
    /\ entLast.gap = <<PLAYER_SHOOT_COOLDOWN>>
\* a shoot() refused while the cooldown was running
C24_WitnessRefused ==
    /\ entLast.op = "shoot"
    /\ entLast.pre.obj.shoot_cooldown > 0
    /\ Len(ent.shots) = 1
    /\ ent.since = <<1>>

(* C25: the ship's shoot_cooldown is at least 0 in every reachable state,  *)
(* after any update(dt) with dt >= 0 and any shoot().                      *)
C25_CooldownNonNegative ==
    ent.obj.kind = "player" => ent.obj.shoot_cooldown >= 0

-----------------------------------------------------------------------------
(* Claims about a tick of PlayingState.update, checked under Spec *)

\* the inputs that the tick of this step can have been given
TickInputs ==
    {in \in UpdateInputs(Before) :
        LET r == PlayingUpdate(Before, in, now, hsFile)
        IN  r.s = After /\ r.log = TickLog}

\* the asteroids that overlapped the ship once everything had moved, by
\* their place in the group
Hitters(moved) ==
    {i \in 1..Len(moved.asteroids) :
        IsColliding(moved.asteroids[i], moved.player)}

(* C26: when an asteroid collides with a vulnerable ship in                *)
(* PlayingState.update, that asteroid is destroyed in the same tick: after *)
(* the tick it is no longer a member of the asteroids group.               *)
C26_Step ==
    Ticked =>
       \A in \in TickInputs :
          LET moved == MoveEntities(Before, in)
              first == CHOOSE i \in Hitters(moved) :
                          \A j \in Hitters(moved) : i <= j
          IN  (Hitters(moved) # {} /\ CountOp(TickLog, "lose_life") > 0)
                 => \A k \in 1..Len(After.asteroids) :
                       After.asteroids[k] # moved.asteroids[first]
C26_HitAsteroidDestroyed == [][C26_Step]_vars

\* the invincibility durations a LivesManager can be built with
DurationValues == {0, 1, DEFAULT_INVINCIBILITY_DURATION}

\* whatever the tick is given and whatever invincibility_duration the
\* session's LivesManager has, the tick takes at most one life
C30_Inv ==
    LET cur == mgr.current_state
    IN  (cur # 0 /\ heap[cur].kind = "Playing" /\ heap[cur].active) =>
           \A d \in DurationValues :
              LET s == [heap[cur].session EXCEPT
                           !.lives_manager.invincibility_duration = d]
              IN  \A in \in UpdateInputs(s) :
                     LET r == PlayingUpdate(s, in, now, hsFile)
                     IN  /\ CountOp(r.log, "lose_life") <= 1
                         /\ GetLives(r.s.lives_manager)
                               >= GetLives(s.lives_manager) - 1
C30_Step ==
    Ticked =>
       /\ CountOp(TickLog, "lose_life") <= 1
       /\ GetLives(After.lives_manager) >= GetLives(Before.lives_manager) - 1

(* C30: at most one life is lost in a tick of PlayingState.update, however *)
(* many asteroids overlap the ship and whatever the invincibility          *)
(* duration, 0 included.                                                   *)
C30_OneLifePerTick == []C30_Inv /\ [][C30_Step]_vars

\* a tick that took exactly one life with two asteroids on the ship
C30_Witness ==
    LET cur == mgr.current_state
    IN  /\ cur # 0 /\ heap[cur].kind = "Playing" /\ heap[cur].active
        /\ CountOp(calls, "lose_life") = 1
        /\ CountOp(calls, "respawn_player") = 1
        /\ Len(heap[cur].session.asteroids) = 2
        /\ \A i \in 1..2 : IsColliding(heap[cur].session.asteroids[i],
                                       heap[cur].session.player)

-----------------------------------------------------------------------------
(* Claims about the states' transitions, checked under Spec *)

StateChanges ==
    {<<"Menu", "Playing">>, <<"Playing", "Paused">>, <<"Playing", "GameOver">>,
     <<"Paused", "Playing">>, <<"Paused", "Menu">>,
     <<"GameOver", "Playing">>, <<"GameOver", "Menu">>}

\* the step left a state queued that was not queued before it: the current
\* state requested a change in its update or handle_event
Requested ==
    /\ mgr'.current_state # 0
    /\ mgr'.next_state # 0
    /\ mgr'.next_state # mgr.next_state

C27_Step ==
    Requested =>
       LET from == heap'[mgr'.current_state]
           to == heap'[mgr'.next_state]
       IN  /\ <<from.kind, to.kind>> \in StateChanges
           /\ from.kind = "GameOver" /\ to.kind = "Playing"
                 => /\ mgr'.next_state \notin DOMAIN heap
                    /\ to.session = Unentered /\ ~to.active
           /\ from.kind = "Paused" /\ to.kind = "Playing"
                 => mgr'.next_state = from.playing_state

\* from the current state two key presses at most request a change
C27_Inv ==
    LET cur == mgr.current_state
        m0 == [mgr EXCEPT !.next_state = 0]
    IN  (running /\ cur # 0) =>
           \E k1, k2 \in Keys :
              LET r1 == StateHandleEvent(m0, heap, cur, k1)
                  r2 == StateHandleEvent(r1.mgr, r1.heap, cur, k2)
              IN  \/ r1.mgr.next_state # 0
                  \/ r1.running /\ r2.mgr.next_state # 0

C27_WitnessMenu ==
    /\ mgr.current_state # 0 /\ mgr.next_state # 0
    /\ heap[mgr.current_state].kind = "GameOver"
    /\ heap[mgr.next_state].kind = "Menu"

(* C28: while PausedState is the current state, none of its update, draw   *)
(* and handle_event calls, the one requesting a transition apart, changes  *)
(* anything in the suspended PlayingState: its groups, score, lives,       *)
(* invincibility flag and extra-life notification time stay as they were.  *)
C28_Step ==
    LET cur == mgr.current_state
    IN  (cur # 0 /\ heap[cur].kind = "Paused" /\ mgr' = mgr)
           => heap'[heap[cur].playing_state].session
                 = heap[heap[cur].playing_state].session
C28_PausedKeepsSession == [][C28_Step]_vars

-----------------------------------------------------------------------------
(* Claims about the SoundManager, checked under SpecSound *)

GuardedMethods ==
    {"load_sound", "play_sound", "play_music", "stop_music", "pause_music",
     "unpause_music", "fade_out_music", "fade_in_music", "crossfade_music"}
ValueReturning ==
    {"load_sound", "play_music", "fade_in_music", "crossfade_music"}

(* C29: on a manager whose mixer failed to initialise, load_sound,         *)
(* play_sound, play_music, stop_music, pause_music, unpause_music,         *)
(* fade_out_music, fade_in_music and crossfade_music raise nothing, do not *)
(* reach the audio device and leave sounds and current_music as they       *)
(* were; those that return a value return False.                           *)
C29_SilentWithoutMixer ==
    (sndLast.op \in GuardedMethods /\ ~sndLast.pre.m.mixer_initialized)
       => /\ ~sndLast.raised
          /\ snd.dev = sndLast.pre.dev
          /\ snd.m.sounds = sndLast.pre.m.sounds
          /\ snd.m.current_music = sndLast.pre.m.current_music
          /\ sndLast.op \in ValueReturning => sndLast.ret = "False"
          /\ sndLast.op \notin ValueReturning => sndLast.ret = "None"

\* three calls, the last a crossfade, on a manager without a mixer
C29_Witness ==
    /\ sndLast.op = "crossfade_music"
    /\ ~snd.m.mixer_initialized
    /\ snd.steps = MaxSoundCalls
    /\ sndLast.ret = "False"
\* the same calls do reach the device on a manager with a mixer
C29_WitnessMixer ==
    /\ sndLast.op = "crossfade_music"
    /\ snd.m.mixer_initialized
    /\ sndLast.ret = "True"
    /\ snd.dev.calls > sndLast.pre.dev.calls + 2

-----------------------------------------------------------------------------
(* Claims about the order and the bookkeeping of a tick, checked under     *)
(* SpecSession                                                             *)

Awards == {"split", "add_score", "check_extra_life", "add_life"}

(* C31: in a tick of PlayingState.update the ship-hit check over the       *)
(* asteroids comes before the shot-asteroid resolution: no score or extra  *)
(* life is awarded in a tick before that tick's ship hit has been          *)
(* evaluated.                                                              *)
C31_Step ==
    Ticked =>
       \A j, k \in 1..Len(TickLog) :
          (j < k /\ TickLog[k].op = "lose_life") => TickLog[j].op \notin Awards
C31_ShipHitBeforeShots == [][C31_Step]_vars


\* the asteroids that overlapped a live shot once everything had moved, by
\* their place in the group
Targets(moved) ==
    {i \in 1..Len(moved.asteroids) :
        \E j \in 1..Len(moved.shots) :
           IsColliding(moved.asteroids[i], moved.shots[j])}

RECURSIVE PointsOf(_, _)
\* what one split() of each of the asteroids at the places in set is worth
PointsOf(asteroids, set) ==
    IF set = {} THEN 0
    ELSE LET i == CHOOSE i \in set : TRUE
         IN  SplitPoints(asteroids[i].radius) + PointsOf(asteroids, set \ {i})

(* C32: within one tick of PlayingState.update each asteroid is split at   *)
(* most once and its points are awarded at most once, even when several    *)
(* live shots overlap it in that tick, and the children of a split are not *)
(* tested for collision until the next tick: the tick makes no more        *)
(* split() calls than there were asteroids under a shot when the tick's    *)
(* movement was done, and adds no more points than one split of each.      *)
C32_Step ==
    Ticked =>
       \A in \in TickInputs :
          LET moved == MoveEntities(Before, in)
          IN  /\ CountOp(TickLog, "split") <= Cardinality(Targets(moved))
              /\ SumOp(TickLog, "add_score")
                    <= PointsOf(moved.asteroids, Targets(moved))
C32_SplitOncePerTick == [][C32_Step]_vars


\* PlayingState.update has queued the GameOverState and it has not been
\* applied yet
GameOverQueued ==
    /\ mgr.current_state # 0 /\ mgr.next_state # 0
    /\ heap[mgr.current_state].kind = "Playing"
    /\ heap[mgr.next_state].kind = "GameOver"

(* C33: once PlayingState.update has queued GameOver, the next transition  *)
(* that GameStateManager.update applies is to that GameOverState, whatever *)
(* events reach the still-current PlayingState in between: until it is     *)
(* applied the queued GameOverState stays queued.                          *)
C33_Step ==
    GameOverQueued =>
       \/ mgr'.next_state = mgr.next_state /\ mgr'.current_state = mgr.current_state
       \/ mgr'.current_state = mgr.next_state
C33_GameOverIsApplied == [][C33_Step]_vars


-----------------------------------------------------------------------------
(* Claims about the GameStateManager's pending transition, checked under   *)
(* Spec                                                                    *)

(* C34: GameStateManager holds at most one pending transition.  Of several *)
(* change_state calls before an update only the last state is entered: the *)
(* manager calls enter() only on the state queued when update begins and   *)
(* exit() only on the state current then, so a state that was queued and   *)
(* replaced receives neither.  After an update next_state is None unless   *)
(* the update of the state it delegated to requested a change.  With no    *)
(* current and no pending state update, draw and handle_event do nothing.  *)
C34_Step ==
    LET X == mgr.next_state
        old == mgr.current_state
    IN  /\ \A k \in 1..Len(calls') :
              /\ calls'[k].op = "enter" => Updated /\ X # 0 /\ calls'[k].arg = X
              /\ calls'[k].op = "exit" => Updated /\ X # 0 /\ calls'[k].arg = old
        /\ Updated /\ X # 0 =>
              /\ mgr'.current_state = X
              /\ CountOp(calls', "enter") = 1
        /\ Updated =>
              (mgr'.next_state # 0 <=> CountOp(calls', "change_state") > 0)
        /\ (old = 0 /\ X = 0 /\ (Update \/ Draw \/ HandleEvent)) =>
              UNCHANGED <<mgr, heap, hsFile, running>>
C34_OnePendingTransition == [][C34_Step]_vars
\* a PausedState is current whose identity shows that another state had been
\* queued, and replaced, when it was requested
C34_Witness ==
    LET c == mgr.current_state
    IN  /\ c # 0
        /\ heap[c].kind = "Paused" /\ heap[c].active
        /\ \E i \in 1..(c - 1) : i # heap[c].playing_state
        /\ calls = <<Ev("exit", heap[c].playing_state), Ev("enter", c),
                     Ev("update", c)>>


(* C35: lifecycle discipline of state instances.  update(), draw() and     *)
(* handle_event() are invoked on a state instance only after its enter()   *)
(* and before its next exit(), and exit() is never called on an instance   *)
(* that has not been entered since its last exit(), whether the call comes *)
(* from the manager or from PausedState drawing or quitting to the menu.   *)
C35_Step ==
    \A k \in 1..Len(calls') :
       LET e == calls'[k]
       IN  /\ e.op = "update" => heap'[e.arg].active
           /\ e.op \in {"draw", "handle_event", "playing_state.draw",
                        "exit", "playing_state.exit"}
                 => heap[e.arg].active
C35_LifecycleDiscipline == [][C35_Step]_vars


-----------------------------------------------------------------------------
(* Claims about the bookkeeping of a session, checked under SpecSession    *)

\* the extra lives a score has earned
Earned(score) == score \div EXTRA_LIFE_THRESHOLD

(* C36: in a PlayingState session with the default managers, after every   *)
(* tick lives == 3 - (hits taken) + (extra lives awarded) and extra lives  *)
(* awarded == floor(score / 10000), every award being 20, 50 or 100: a     *)
(* session begins with 3 lives and score 0, and each tick changes the      *)
(* lives by the extra lives it awarded less the hits it took, and awards   *)
(* as many extra lives as floor(score / 10000) grew by.                    *)
C36_Step ==
    Ticked =>
       LET hits == CountOp(TickLog, "lose_life")
           extra == CountOp(TickLog, "add_life")
           score0 == GetScore(Before.score_manager)
           score1 == GetScore(After.score_manager)
       IN  /\ mgr.next_state # 0 =>
                 /\ GetLives(Before.lives_manager) = DEFAULT_INITIAL_LIVES
                 /\ score0 = 0
           /\ \A k \in 1..Len(TickLog) :
                 TickLog[k].op = "add_score" => TickLog[k].arg \in {20, 50, 100}
           /\ GetLives(After.lives_manager)
                 = GetLives(Before.lives_manager) - hits + extra
           /\ Earned(score1) - Earned(score0) = extra
C36_LivesAccount == [][C36_Step]_vars
\* a tick that awarded an extra life and took a hit
C36_Witness ==
    /\ CountOp(calls, "add_life") = 1
    /\ CountOp(calls, "lose_life") = 1
    /\ heap[mgr.current_state].kind = "Playing"
    /\ GetLives(heap[mgr.current_state].session.lives_manager) = 1


-----------------------------------------------------------------------------
(* Claims about the high score file, checked under SpecScore *)

(* C37: the persisted high score never decreases: over any sequence of     *)
(* ScoreManager constructions that load successfully and add_score,        *)
(* reset_score and save_high_score calls on the same file, each value      *)
(* written is >= the value stored before it, the file changes only in      *)
(* save_high_score, and the in-memory high_score changes only in           *)
(* load_high_score (at construction) and save_high_score.                  *)
C37_Step ==
    /\ store' # store => smLast'.op = "save_high_score" /\ smLast'.flag
    /\ (smLast'.op = "save_high_score" /\ smLast'.flag
           /\ store.kind \in {"int", "bool"}) =>
          /\ store'.kind \in {"int", "bool"}
          /\ store'.value >= store.value
    /\ (smgr.exists /\ smgr'.exists
           /\ smgr'.obj.high_score # smgr.obj.high_score) =>
          smLast'.op \in {"init", "save_high_score"}
-----------------------------------------------------------------------------
(* Claims about the failure and the termination of splitting *)

(* C39: split() returns a points value in {20, 50, 100} for every          *)
(* asteroid, one with radius > ASTEROID_MIN_RADIUS and zero velocity       *)
(* included: it never fails after it has destroyed the asteroid, which     *)
(* would lose the points and the children.  Checked under SpecSplit.       *)
C39_SplitReturnsPoints ==
    astLast.op = "split" =>
        /\ ~SplitOut.raised
        /\ SplitOut.returned /\ SplitOut.points \in {20, 50, 100}


\* the asteroid the cascade began with and its tier k
CascadeRoot == ast.objects[1]
CascadeTier == CascadeRoot.radius \div ASTEROID_MIN_RADIUS

\* the asteroids not yet split, and the points the split() calls made so far
\* have returned
CascadeLeft == DOMAIN ast.objects \ ast.done
RECURSIVE PointsReturned(_)
PointsReturned(ids) ==
    IF ids = {} THEN 0
    ELSE LET id == CHOOSE id \in ids : TRUE
             out == Split(ast.objects[id], ast.containers, NoDraw)
         IN  (IF out.returned THEN out.points ELSE 0)
                + PointsReturned(ids \ {id})

\* 100; 50 and two of those; 20 and two of those
CascadePoints == <<100, 250, 520>>

(* C38: splitting terminates: from one asteroid of radius                  *)
(* k * ASTEROID_MIN_RADIUS with no new spawns, split() called again and    *)
(* again on any live asteroid leaves no asteroid after exactly 2^k - 1     *)
(* calls, every child ever created has radius >= ASTEROID_MIN_RADIUS, and  *)
(* the total of the points returned is fixed by k (520 for k = 3).         *)
(* Checked under SpecCascade.                                              *)
C38_CascadeTerminates ==
    /\ \A id \in DOMAIN ast.objects :
          id > 1 => ast.objects[id].radius >= ASTEROID_MIN_RADIUS
    /\ Cardinality(ast.done) <= 2 ^ CascadeTier - 1
    /\ CascadeLeft = {} =>
          /\ Cardinality(ast.done) = 2 ^ CascadeTier - 1
          /\ PointsReturned(ast.done) = CascadePoints[CascadeTier]

\* the same for a parent that moves, whose split() does not raise
C38_MovingCascadeTerminates ==
    ~IsZero(CascadeRoot.velocity) => C38_CascadeTerminates
\* a cascade from the largest tier that has run to its end
C38_MovingWitness ==
    /\ CascadeTier = ASTEROID_KINDS
    /\ CascadeLeft = {}
    /\ Cardinality(ast.done) = 7

=========================================================================
